---- MODULE Spec2Model ----
(***************************************************************************)
(* A model of the asynchronous resource-resolution layer of cased-node:    *)
(* API-key resolution and request dispatch (client.ts, config.ts), the     *)
(* paged-result cursor (client.ts requestPage) and the two settled() poll  *)
(* loops (export.ts, cli/session.ts).                                      *)
(***************************************************************************)
EXTENDS Integers, Sequences, FiniteSets, TLC

VARIABLES
    config,     \* the process-wide configuration (config.ts `config`)
    env,        \* process.env, the variables getPolicyKey reads
    d,          \* one call of request(): its position, inputs and outcome
    poll,       \* one call of settled(): its position, its fetches and sleeps
    server,     \* the remote result set: the number of its items
    cur,        \* the Page object the caller holds (requestPage's closure)
    nav,        \* one navigation call on cur: its position and outcome
    it,         \* one run of cur's async iterator: its position and history
    pub         \* Event.publish: the caller's event and collector, one call

vars == <<config, env, d, poll, server, cur, nav, it, pub>>

-----------------------------------------------------------------------------
(* JavaScript values.                                                       *)

NULL  == "<null>"
UNDEF == "<undefined>"

\* JavaScript truthiness of a string-or-null-or-undefined value.
Truthy(v) == v \notin {NULL, UNDEF, ""}

\* a || b
OrElse(a, b) == IF Truthy(a) THEN a ELSE b

-----------------------------------------------------------------------------
(* Configuration (config.ts).                                               *)

PolicyNames == {"users", "organizations"}

EnvName(n) == "CASED_" \o n \o "_POLICY_KEY"

\* The variables of the environment the model lets be set; every other one
\* (CASED_PUBLISH_KEY, GUARD_APPLICATION_KEY, ...) is unset.
EnvVars == {"CASED_POLICY_KEY"} \cup {EnvName(n) : n \in PolicyNames}

ConfigFields ==
    {"name", "policyKey", "policyKeys", "publishKey", "guardApplicationKey",
     "guardUserToken"}

\* The values a caller assigns to a field of the configuration.
FieldValues(f) ==
    CASE f = "name"                -> {NULL, ""} \cup PolicyNames
      [] f = "policyKey"           -> {NULL, "", "cs_policy"}
      [] f = "policyKeys"          ->
           [PolicyNames -> {UNDEF, ""}] \cup
           { [m \in PolicyNames |-> IF m = n THEN "cs_" \o n ELSE UNDEF] :
                 n \in PolicyNames } \cup
           { [m \in PolicyNames |-> "cs_" \o m] }
      [] f = "publishKey"          -> {NULL, "", "publish_key"}
      [] f = "guardApplicationKey" -> {NULL, "", "guard_key"}
      [] f = "guardUserToken"      -> {NULL, "user_token"}

\* process.env[var]
EnvAt(e, var) == IF var \in DOMAIN e THEN e[var] ELSE UNDEF

\* `export let config: Config = {...}`: the keys default to the environment.
InitialConfig(e) ==
    [ name                |-> NULL,
      policyKey           |-> OrElse(EnvAt(e, "CASED_POLICY_KEY"), NULL),
      policyKeys          |-> [n \in PolicyNames |-> UNDEF],
      publishKey          |-> OrElse(EnvAt(e, "CASED_PUBLISH_KEY"), NULL),
      guardApplicationKey |-> OrElse(EnvAt(e, "GUARD_APPLICATION_KEY"), NULL),
      guardUserToken      |-> OrElse(EnvAt(e, "GUARD_USER_TOKEN"), NULL) ]

\* config.policyKeys[config.name]: a name that is no key of the object reads
\* as undefined.
PolicyKeysAt(c) ==
    IF c.name \in DOMAIN c.policyKeys THEN c.policyKeys[c.name] ELSE UNDEF

\* A getPolicyKey that consults the default policy key before the named one.
getPolicyKeyDefaultFirst(c, e) ==
    IF c.policyKey # NULL THEN c.policyKey
    ELSE IF Truthy(c.name) /\ Truthy(PolicyKeysAt(c)) THEN PolicyKeysAt(c)
    ELSE IF Truthy(c.name) /\ Truthy(EnvAt(e, EnvName(c.name)))
         THEN EnvAt(e, EnvName(c.name))
    ELSE IF Truthy(EnvAt(e, "CASED_POLICY_KEY")) THEN EnvAt(e, "CASED_POLICY_KEY")
    ELSE NULL

\* A getPolicyKey that never falls back to the environment.
getPolicyKeyNoEnv(c, e) ==
    IF Truthy(c.name) /\ Truthy(PolicyKeysAt(c)) THEN PolicyKeysAt(c)
    ELSE IF c.policyKey # NULL THEN c.policyKey
    ELSE NULL

getPolicyKey(c, e) ==
    IF Truthy(c.name) /\ Truthy(PolicyKeysAt(c)) THEN PolicyKeysAt(c)
    ELSE IF Truthy(c.name) /\ Truthy(EnvAt(e, EnvName(c.name)))
         THEN EnvAt(e, EnvName(c.name))
    ELSE IF c.policyKey # NULL THEN c.policyKey
    ELSE IF Truthy(EnvAt(e, "CASED_POLICY_KEY")) THEN EnvAt(e, "CASED_POLICY_KEY")
    ELSE NULL

-----------------------------------------------------------------------------
(* request(): configuration merge and credential resolution (client.ts).    *)

Scopes == {"publish", "cli", "api"}

\* The fields ConfigOverrides lets a call override.
OverrideFields ==
    {"name", "policyKey", "publishKey", "guardApplicationKey", "guardUserToken"}

\* A field the overrides object does not carry.
ABSENT == "<absent>"

NoOverrides == [f \in OverrideFields |-> ABSENT]

\* The per-call overrides the model draws from: none, one field, or a policy
\* object carrying a name and a key (test/event.test.ts usersPolicy).
Overrides ==
    { NoOverrides } \cup
    { [NoOverrides EXCEPT !.name = n] : n \in PolicyNames } \cup
    { [NoOverrides EXCEPT !.policyKey = "cs_override"] } \cup
    { [NoOverrides EXCEPT !.name = "users", !.policyKey = "cs_override"] } \cup
    { [NoOverrides EXCEPT !.publishKey = "publish_override"] } \cup
    { [NoOverrides EXCEPT !.guardApplicationKey = "guard_override"] }

\* A merge in which the process-wide field wins: { ...options.config,
\* ...globalConfig }.
MergeConfigGlobalWins(c, ov) ==
    [f \in DOMAIN c |->
        IF f \in OverrideFields /\ ov[f] # ABSENT /\ c[f] \in {NULL, UNDEF}
        THEN ov[f] ELSE c[f]]

\* { ...globalConfig, ...options.config }
MergeConfig(c, ov) ==
    [f \in DOMAIN c |->
        IF f \in OverrideFields /\ ov[f] # ABSENT THEN ov[f] ELSE c[f]]

\* A credential resolution that lets an unset key through.
ResolveKeyUnchecked(scope, c, e) ==
    [ok |-> TRUE,
     key |-> CASE scope = "publish" -> c.publishKey
               [] scope = "cli"     -> c.guardApplicationKey
               [] OTHER             -> getPolicyKey(c, e)]

\* The if / else-if / else of request(): the key for the scope, or none.
ResolveKey(scope, c, e) ==
    CASE scope = "publish" ->
           IF ~Truthy(c.publishKey) THEN [ok |-> FALSE, key |-> NULL]
           ELSE [ok |-> TRUE, key |-> c.publishKey]
      [] scope = "cli" ->
           IF ~Truthy(c.guardApplicationKey) THEN [ok |-> FALSE, key |-> NULL]
           ELSE [ok |-> TRUE, key |-> c.guardApplicationKey]
      [] OTHER ->
           IF ~Truthy(getPolicyKey(c, e)) THEN [ok |-> FALSE, key |-> NULL]
           ELSE [ok |-> TRUE, key |-> getPolicyKey(c, e)]

-----------------------------------------------------------------------------
(* request(): the response and its classification (client.ts, errors.ts).   *)

\* A response of the transport: the status code, whether the content-type
\* header is exactly "application/json; charset=utf-8", the parsed body and
\* the location header.
Response(status, json, body, location) ==
    [status |-> status, json |-> json, body |-> body, location |-> location]

\* The payload `null`: what `data` stays when the body was not parsed, and
\* what the JSON text `null` parses to.
NoData == [null |-> TRUE]

\* A body whose text is not JSON (an empty body, an HTML page).
Malformed == [malformed |-> TRUE]

\* JSON.parse(body.toString("utf8")): the value the text denotes, or a
\* SyntaxError when the text is not JSON.
JSONParse(body) ==
    IF body = Malformed THEN [ok |-> FALSE, data |-> NoData]
    ELSE [ok |-> TRUE, data |-> body]

\* Array.prototype.join.
RECURSIVE Join(_, _)
Join(q, sep) ==
    IF q = <<>> THEN ""
    ELSE IF Len(q) = 1 THEN q[1]
    ELSE q[1] \o sep \o Join(Tail(q), sep)

\* `${name} ${response.messages[name]}`: an array in a template string is
\* its elements joined by ",".
MessageEntry(e) == e.name \o " " \o Join(e.msgs, ",")

\* The message the APIError constructor computes from an error body; the
\* messages mapping is its entries in insertion order.
APIErrorMessage(data) ==
    IF "message" \in DOMAIN data /\ Truthy(data.message) THEN data.message
    ELSE IF "messages" \in DOMAIN data
    THEN Join([i \in DOMAIN data.messages |-> MessageEntry(data.messages[i])],
              ", ")
    ELSE "unknown API error"

\* `new APIError(data)`: reading a property of a null body is a TypeError.
APIErrorOf(data) ==
    IF data = NoData THEN [kind |-> "TypeError", data |-> NoData]
    ELSE [kind |-> "APIError", data |-> data, message |-> APIErrorMessage(data)]

\* A classification that treats 400 and 404 as API errors.
ClassifyStrict(r) ==
    LET parsed == IF r.json THEN JSONParse(r.body)
                  ELSE [ok |-> TRUE, data |-> NoData]
        data   == parsed.data IN
    IF ~parsed.ok THEN [kind |-> "SyntaxError", data |-> NoData]
    ELSE
    CASE r.status \in {200, 201, 202, 204} -> [kind |-> "return", data |-> data]
      [] r.status = 302 -> [kind |-> "return", data |-> [location |-> r.location]]
      [] r.status \in {400, 401, 404, 417} -> APIErrorOf(data)
      [] OTHER -> [kind |-> "AssertionError", data |-> NoData]

\* A status switch whose default hands the payload back.
ClassifyLenient(r) ==
    LET parsed == IF r.json THEN JSONParse(r.body)
                  ELSE [ok |-> TRUE, data |-> NoData]
        data   == parsed.data IN
    IF ~parsed.ok THEN [kind |-> "SyntaxError", data |-> NoData]
    ELSE
    CASE r.status = 302 -> [kind |-> "return", data |-> [location |-> r.location]]
      [] r.status \in {401, 417} -> APIErrorOf(data)
      [] OTHER -> [kind |-> "return", data |-> data]

\* The body is parsed when the content type says JSON, then the switch on
\* response.statusCode.
Classify(r) ==
    LET parsed == IF r.json THEN JSONParse(r.body)
                  ELSE [ok |-> TRUE, data |-> NoData]
        data   == parsed.data IN
    IF ~parsed.ok THEN [kind |-> "SyntaxError", data |-> NoData]
    ELSE
    CASE r.status \in {200, 201, 202, 204, 400, 404} ->
           [kind |-> "return", data |-> data]
      [] r.status = 302 -> [kind |-> "return", data |-> [location |-> r.location]]
      [] r.status \in {401, 417} -> APIErrorOf(data)
      [] OTHER -> [kind |-> "AssertionError", data |-> NoData]

-----------------------------------------------------------------------------
(* One call of request() (client.ts).                                       *)

Idle == [pc |-> "idle"]

\* No response has been received.
NoResponse == [none |-> TRUE]

\* request() up to its await: merge, resolve the key, hand the request to the
\* transport or throw AuthenticationError.
RequestBegin(scope, ov) ==
    LET merged == MergeConfig(config, ov)
        res    == ResolveKey(scope, merged, env) IN
    IF res.ok
    THEN [pc |-> "sent", scope |-> scope, merged |-> merged, key |-> res.key,
          calls |-> 1, response |-> NoResponse,
          outcome |-> [kind |-> "none", data |-> NoData]]
    ELSE [pc |-> "done", scope |-> scope, merged |-> merged, key |-> NULL,
          calls |-> 0, response |-> NoResponse,
          outcome |-> [kind |-> "AuthenticationError", data |-> NoData]]

\* The caller assigns a field of the process-wide configuration.
SetConfig(f, v) ==
    /\ d.pc = "idle"
    /\ config' = [config EXCEPT ![f] = v]
    /\ UNCHANGED <<env, d, poll, server, cur, nav, it, pub>>

\* The caller calls request().
RequestStart(scope, ov) ==
    /\ d.pc = "idle"
    /\ d' = RequestBegin(scope, ov)
    /\ UNCHANGED <<config, env, poll, server, cur, nav, it, pub>>

\* The transport resolves: request() classifies the response and settles.
RequestRespond(r) ==
    /\ d.pc = "sent"
    /\ d' = [d EXCEPT !.pc = "done", !.response = r, !.outcome = Classify(r)]
    /\ UNCHANGED <<config, env, poll, server, cur, nav, it, pub>>

\* The caller has taken the outcome; the next call may start.
RequestTaken ==
    /\ d.pc = "done"
    /\ d' = Idle
    /\ UNCHANGED <<config, env, poll, server, cur, nav, it, pub>>

\* The parts of the model a specification leaves at rest.
PollIdle   == [pc |-> "idle"]
NoCursor   == [pc |-> "none"]
NavIdle    == [pc |-> "idle"]
IterIdle   == [pc |-> "none"]
PubIdle    == [pc |-> "idle"]

\* The responses the key-resolution specification draws from.
AuthResponses ==
    { Response(200, TRUE, [id |-> "1"], UNDEF),
      Response(401, TRUE, [error |-> "unauthorized"], UNDEF) }

\* The fields the key-resolution specification lets the caller assign.
AuthFields ==
    {"name", "policyKey", "policyKeys", "publishKey", "guardApplicationKey"}

InitAuth ==
    /\ env \in { e \in [EnvVars -> {UNDEF, "env_key", "env_named"}] :
                   \A v \in EnvVars :
                      e[v] \in {UNDEF, IF v = "CASED_POLICY_KEY"
                                       THEN "env_key" ELSE "env_named"} }
    /\ config = InitialConfig(env)
    /\ d = Idle
    /\ poll = PollIdle
    /\ server = <<>>
    /\ cur = NoCursor
    /\ nav = NavIdle
    /\ it = IterIdle
    /\ pub = PubIdle

NextAuth ==
    \/ \E f \in AuthFields : \E v \in FieldValues(f) : SetConfig(f, v)
    \/ \E scope \in Scopes : \E ov \in Overrides : RequestStart(scope, ov)
    \/ \E r \in AuthResponses : RequestRespond(r)
    \/ RequestTaken

SpecAuth == InitAuth /\ [][NextAuth]_vars

-----------------------------------------------------------------------------
(* Claims about credential resolution, checked under SpecAuth.              *)

\* The call of request() has resolved its credential or failed to.
Dispatched == d.pc \in {"sent", "done"}

\* The merged configuration holds no key for the scope: the scope's key field
\* is unset and, for the policy scope, no named policy key is set either.
NoKeyInConfig(scope, c) ==
    CASE scope = "publish" -> ~Truthy(c.publishKey)
      [] scope = "cli"     -> ~Truthy(c.guardApplicationKey)
      [] OTHER             -> /\ ~Truthy(c.policyKey)
                              /\ \A n \in DOMAIN c.policyKeys :
                                    ~Truthy(c.policyKeys[n])

\* The environment holds no policy key the configuration's name selects.
NoKeyInEnv(scope, c, e) ==
    scope = "api" =>
       /\ ~Truthy(EnvAt(e, "CASED_POLICY_KEY"))
       /\ Truthy(c.name) => ~Truthy(EnvAt(e, EnvName(c.name)))

FailedAuthentication ==
    /\ d.pc = "done"
    /\ d.outcome.kind = "AuthenticationError"
    /\ d.calls = 0

\* C8 as stated: on every scope, a dispatch whose merged configuration holds
\* no credential for the scope fails with AuthenticationError and issues no
\* transport call.
C8_AsStated ==
    (Dispatched /\ NoKeyInConfig(d.scope, d.merged)) => FailedAuthentication

\* C8, amended: on every scope, a dispatch whose merged configuration holds no
\* credential for the scope, and for which (policy scope) neither
\* CASED_POLICY_KEY nor the name-keyed environment variable is set, fails with
\* AuthenticationError, with no other error kind, and issues no transport call.
C8_NoKeyFailsAuthentication ==
    (/\ Dispatched
     /\ NoKeyInConfig(d.scope, d.merged)
     /\ NoKeyInEnv(d.scope, d.merged, env)) => FailedAuthentication

\* C8 witness: a policy-scope dispatch with a name, no key in the merged
\* configuration and none in the environment has failed.
C8_Witness ==
    /\ FailedAuthentication
    /\ d.scope = "api"
    /\ Truthy(d.merged.name)
    /\ NoKeyInConfig("api", d.merged)
    /\ d.merged.policyKey = NULL

\* The merged configuration has a name with an entry in policyKeys.
HasNamedKey(c) == Truthy(c.name) /\ Truthy(PolicyKeysAt(c))

\* C9: a policy-scope dispatch whose merged configuration has a name with an
\* entry in policyKeys is sent with policyKeys[name] as its credential, whatever
\* the default policyKey and the environment hold and in whatever order the
\* configuration was assigned.
C9_NamedKeyWins ==
    (Dispatched /\ d.scope = "api" /\ HasNamedKey(d.merged)) =>
        /\ d.key = d.merged.policyKeys[d.merged.name]
        /\ d.calls = 1
        /\ d.outcome.kind # "AuthenticationError"

\* C9 witness: the named key was used although a different default policy key
\* and both environment variables were set.
C9_Witness ==
    /\ Dispatched
    /\ d.scope = "api"
    /\ HasNamedKey(d.merged)
    /\ Truthy(d.merged.policyKey)
    /\ d.merged.policyKey # d.key
    /\ Truthy(EnvAt(env, EnvName(d.merged.name)))
    /\ Truthy(EnvAt(env, "CASED_POLICY_KEY"))
    /\ d.key = d.merged.policyKeys[d.merged.name]

\* The dispatch was sent with credential k.
SentWith(k) == d.calls = 1 /\ d.key = k /\ d.outcome.kind # "AuthenticationError"

HasNamedEnv(c, e) == Truthy(c.name) /\ Truthy(EnvAt(e, EnvName(c.name)))

\* C10 as stated: the order is policyKeys[name], the name-keyed environment
\* variable, config.policyKey when non-null, and failure otherwise; with
\* policyKey null and no named key or name-keyed variable the resolution fails.
C10_AsStated ==
    (Dispatched /\ d.scope = "api") =>
        LET c == d.merged IN
        /\ HasNamedKey(c) => SentWith(PolicyKeysAt(c))
        /\ (~HasNamedKey(c) /\ HasNamedEnv(c, env)) =>
               SentWith(EnvAt(env, EnvName(c.name)))
        /\ (~HasNamedKey(c) /\ ~HasNamedEnv(c, env) /\ c.policyKey # NULL) =>
               IF Truthy(c.policyKey) THEN SentWith(c.policyKey)
               ELSE FailedAuthentication
        /\ (~HasNamedKey(c) /\ ~HasNamedEnv(c, env) /\ c.policyKey = NULL) =>
               FailedAuthentication

\* C10, amended: the order is policyKeys[name], the name-keyed environment
\* variable, config.policyKey when non-null, the CASED_POLICY_KEY environment
\* variable when set, and failure otherwise; the resolution fails with
\* policyKey null only when CASED_POLICY_KEY is unset as well.
C10_ResolutionOrder ==
    (Dispatched /\ d.scope = "api") =>
        LET c == d.merged IN
        /\ HasNamedKey(c) => SentWith(PolicyKeysAt(c))
        /\ (~HasNamedKey(c) /\ HasNamedEnv(c, env)) =>
               SentWith(EnvAt(env, EnvName(c.name)))
        /\ (~HasNamedKey(c) /\ ~HasNamedEnv(c, env) /\ c.policyKey # NULL) =>
               IF Truthy(c.policyKey) THEN SentWith(c.policyKey)
               ELSE FailedAuthentication
        /\ (/\ ~HasNamedKey(c) /\ ~HasNamedEnv(c, env) /\ c.policyKey = NULL
            /\ Truthy(EnvAt(env, "CASED_POLICY_KEY"))) =>
               SentWith(EnvAt(env, "CASED_POLICY_KEY"))
        /\ (/\ ~HasNamedKey(c) /\ ~HasNamedEnv(c, env) /\ c.policyKey = NULL
            /\ ~Truthy(EnvAt(env, "CASED_POLICY_KEY"))) =>
               FailedAuthentication

\* C10 witness: with a name whose named key and named variable are both unset
\* and policyKey null, the dispatch was sent with CASED_POLICY_KEY.
C10_Witness ==
    /\ Dispatched
    /\ d.scope = "api"
    /\ Truthy(d.merged.name)
    /\ ~HasNamedKey(d.merged)
    /\ ~HasNamedEnv(d.merged, env)
    /\ d.merged.policyKey = NULL
    /\ SentWith(EnvAt(env, "CASED_POLICY_KEY"))

-----------------------------------------------------------------------------
(* settled(): the poll loops of export.ts and cli/session.ts.               *)

\* Default poll interval of export.ts settled(), in milliseconds.
ExportPollInterval == 30000

\* Default poll interval of cli/session.ts settled(), in milliseconds.
SessionPollInterval == 1000

\* A poll interval a caller passes instead of the default.
CallerPollInterval == 100

\* The number of fetches one settled() call is followed for.
MaxFetches == 4

PollKinds == {"export", "session"}

\* export.ts fetch() leaves baseURL unset; session.ts fetch() uses "cli".
PollScope(kind) == IF kind = "export" THEN "api" ELSE "cli"

ExportStates  == {"pending", "processing", "successful", "errored"}
SessionStates == {"requested", "approved", "denied", "timed_out", "canceled"}

DefaultInterval(kind) ==
    IF kind = "export" THEN ExportPollInterval ELSE SessionPollInterval

FetchEvent    == [ev |-> "fetch", ms |-> 0]
SleepEvent(n) == [ev |-> "sleep", ms |-> n]

\* `state` of a payload: undefined when the payload has no such field.
StateOf(data) == IF "state" \in DOMAIN data THEN data.state ELSE UNDEF

\* An export switch that polls again at once while the export is processing.
ExportSwitchNoSleep(state) ==
    CASE state = "pending"    -> "sleep"
      [] state = "successful" -> "return"
      [] state = "errored"    -> "throw"
      [] OTHER                -> "loop"

\* An export switch that keeps waiting on an errored export.
ExportSwitchErroredWaits(state) ==
    CASE state \in {"pending", "processing", "errored"} -> "sleep"
      [] state = "successful"                           -> "return"
      [] OTHER                                          -> "loop"

\* The switch of export.ts settled(): no case matches any other state, and
\* the while loop runs again.
ExportSwitch(state) ==
    CASE state \in {"pending", "processing"} -> "sleep"
      [] state = "successful"                -> "return"
      [] state = "errored"                   -> "throw"
      [] OTHER                               -> "loop"

\* A session switch that keeps waiting until the session is approved.
SessionSwitchWaitsForApproval(state) ==
    IF state = "approved" THEN "return" ELSE "sleep"

\* The switch of session.ts settled(): default returns the session.
SessionSwitch(state) == IF state = "requested" THEN "sleep" ELSE "return"

Switch(kind, state) ==
    IF kind = "export" THEN ExportSwitch(state) ELSE SessionSwitch(state)

\* A settled() that resolves to nothing for either resource.
SettlementNothing(kind, data) == NoData

\* What settled() resolves to: export.ts returns nothing, session.ts the
\* session it fetched.
Settlement(kind, data) == IF kind = "export" THEN NoData ELSE data

\* settled() calls fetch(): request() resolves the key and hands the request
\* to the transport, or throws AuthenticationError through the loop.
PollFetch(p) ==
    LET b == RequestBegin(PollScope(p.kind), p.ov) IN
    IF b.pc = "sent"
    THEN [p EXCEPT !.pc = "fetch", !.trace = Append(@, FetchEvent),
                   !.calls = @ + 1, !.last = NoResponse,
                   !.merged = b.merged, !.keys = Append(@, b.key)]
    ELSE [p EXCEPT !.pc = "raised", !.trace = Append(@, FetchEvent),
                   !.error = b.outcome.kind, !.last = NoResponse,
                   !.merged = b.merged, !.keys = Append(@, b.key)]

Fetches(p) == Cardinality({i \in DOMAIN p.trace : p.trace[i].ev = "fetch"})
Sleeps(p)  == Cardinality({i \in DOMAIN p.trace : p.trace[i].ev = "sleep"})

\* The caller calls settled(token, pollInterval, config).
SettledStart(kind, interval, ov) ==
    /\ poll.pc = "idle"
    /\ poll' = PollFetch([pc |-> "idle", kind |-> kind, interval |-> interval,
                          ov |-> ov, trace |-> <<>>, seen |-> <<>>,
                          calls |-> 0, fetched |-> NoData, last |-> NoResponse,
                          error |-> "none", merged |-> config, keys |-> <<>>,
                          result |-> NoData])
    /\ UNCHANGED <<config, env, d, server, cur, nav, it, pub>>

\* The responses a poll's fetch may get: every state of the resource, a state
\* outside the documented set, a JSON body with no state (404), a body that is
\* not JSON, a rejected key and an unhandled status.
PollResponses(kind) ==
    { Response(200, TRUE, [state |-> s], UNDEF) :
         s \in (IF kind = "export" THEN ExportStates ELSE SessionStates)
                  \cup {"unknown"} } \cup
    { Response(404, TRUE, [error |-> "not_found"], UNDEF),
      Response(200, FALSE, [state |-> "successful"], UNDEF),
      Response(401, TRUE, [error |-> "unauthorized"], UNDEF),
      Response(500, FALSE, [error |-> "server"], UNDEF) }

\* A loop that takes a failed fetch for a pending resource and polls again.
AfterFetchRetrying(p, r) ==
    LET o == Classify(r) IN
    IF o.kind # "return" \/ o.data = NoData
    THEN [p EXCEPT !.pc = "sleep", !.seen = Append(@, "pending"),
                   !.trace = Append(@, SleepEvent(p.interval))]
    ELSE LET state == StateOf(o.data)
             q     == [p EXCEPT !.seen = Append(@, state), !.fetched = o.data]
             todo  == Switch(p.kind, state) IN
         CASE todo = "sleep"  ->
                [q EXCEPT !.pc = "sleep",
                          !.trace = Append(@, SleepEvent(p.interval))]
           [] todo = "return" ->
                [q EXCEPT !.pc = "returned",
                          !.result = Settlement(p.kind, o.data)]
           [] todo = "throw"  ->
                [q EXCEPT !.pc = "raised", !.error = "ExportError"]
           [] OTHER           -> PollFetch(q)

\* The body of the while loop after `await fetch(...)`.
AfterFetch(p, r) ==
    LET o == Classify(r) IN
    IF o.kind # "return"
    THEN [p EXCEPT !.pc = "raised", !.error = o.kind]
    ELSE IF o.data = NoData
    THEN [p EXCEPT !.pc = "raised", !.error = "TypeError"]
    ELSE LET state == StateOf(o.data)
             q     == [p EXCEPT !.seen = Append(@, state), !.fetched = o.data]
             todo  == Switch(p.kind, state) IN
         CASE todo = "sleep"  ->
                [q EXCEPT !.pc = "sleep",
                          !.trace = Append(@, SleepEvent(p.interval))]
           [] todo = "return" ->
                [q EXCEPT !.pc = "returned",
                          !.result = Settlement(p.kind, o.data)]
           [] todo = "throw"  ->
                [q EXCEPT !.pc = "raised", !.error = "ExportError"]
           [] OTHER           -> PollFetch(q)

\* The transport resolves the fetch of a poll loop.
SettledRespond ==
    /\ poll.pc = "fetch"
    /\ \E r \in PollResponses(poll.kind) :
         LET p == AfterFetch([poll EXCEPT !.last = r], r) IN
           /\ Fetches(p) <= MaxFetches
           /\ poll' = p
    /\ UNCHANGED <<config, env, d, server, cur, nav, it, pub>>

\* The timer of sleep(pollInterval) fires: the loop fetches again.
SettledWake ==
    /\ poll.pc = "sleep"
    /\ Fetches(poll) < MaxFetches
    /\ poll' = PollFetch(poll)
    /\ UNCHANGED <<config, env, d, server, cur, nav, it, pub>>

\* The caller has taken the outcome of settled().
SettledTaken ==
    /\ poll.pc \in {"returned", "raised"}
    /\ poll' = PollIdle
    /\ UNCHANGED <<config, env, d, server, cur, nav, it, pub>>

\* The caller assigns the key of the process-wide configuration that the
\* poll's scope reads.
PollSetKey(f, v) ==
    /\ config' = [config EXCEPT ![f] = v]
    /\ UNCHANGED <<env, d, poll, server, cur, nav, it, pub>>

\* test/mocks.ts: the configuration the test suite runs under.
TestConfig ==
    [ name                |-> NULL,
      policyKey           |-> "cs_test_001",
      policyKeys          |-> [n \in PolicyNames |->
                                 IF n = "organizations" THEN "cs_test_002"
                                 ELSE UNDEF],
      publishKey          |-> "publish_test_001",
      guardApplicationKey |-> "guard_test_001",
      guardUserToken      |-> NULL ]

NoEnv == [v \in EnvVars |-> UNDEF]

InitPoll ==
    /\ env = NoEnv
    /\ config = TestConfig
    /\ d = Idle
    /\ poll = PollIdle
    /\ server = <<>>
    /\ cur = NoCursor
    /\ nav = NavIdle
    /\ it = IterIdle
    /\ pub = PubIdle

NextPoll ==
    \/ \E kind \in PollKinds :
       \E interval \in {DefaultInterval(kind), CallerPollInterval} :
          SettledStart(kind, interval, NoOverrides)
    \/ SettledRespond
    \/ SettledWake
    \/ SettledTaken
    \/ \E v \in {NULL, "cs_test_001"} : PollSetKey("policyKey", v)
    \/ \E v \in {NULL, "guard_test_001"} : PollSetKey("guardApplicationKey", v)

SpecPoll == InitPoll /\ [][NextPoll]_vars

-----------------------------------------------------------------------------
(* Claims about the poll loops, checked under SpecPoll.                      *)

Polling(kind) == poll.pc # "idle" /\ poll.kind = kind

Last(q) == q[Len(q)]

\* Every state but the last one the poll has seen is in S.
EarlierIn(S) == \A i \in 1 .. Len(poll.seen) - 1 : poll.seen[i] \in S

\* The trace is fetch, sleep, fetch, ..., fetch: n fetches with one sleep of
\* the poll interval between each two.
Alternates(n) ==
    /\ Len(poll.trace) = 2 * n - 1
    /\ \A i \in DOMAIN poll.trace :
          poll.trace[i] = IF i % 2 = 1 THEN FetchEvent
                          ELSE SleepEvent(poll.interval)

\* C2: when the fetches of an export's settled() have returned k states of
\* {pending, processing} and then successful, the call has returned normally
\* after exactly k+1 fetches and k sleeps of the poll interval, one sleep after
\* each pending or processing fetch and before the next fetch.
C2_SettledFetchesAndSleeps ==
    (/\ Polling("export")
     /\ poll.seen # <<>>
     /\ Last(poll.seen) = "successful"
     /\ EarlierIn({"pending", "processing"})) =>
        /\ poll.pc = "returned"
        /\ Fetches(poll) = Len(poll.seen)
        /\ Sleeps(poll) = Len(poll.seen) - 1
        /\ Alternates(Len(poll.seen))

\* C2 witness: pending, processing, successful was seen and the call returned.
C2_Witness ==
    /\ Polling("export")
    /\ poll.seen = <<"pending", "processing", "successful">>
    /\ poll.pc = "returned"
    /\ Fetches(poll) = 3
    /\ Sleeps(poll) = 2

\* C3: the first fetch of an export's settled() that returns errored makes the
\* call raise ExportError; errored is the last state the loop sees and the
\* fetch that returned it is the last thing the loop did (no later fetch, no
\* later sleep); when it is the very first fetch there was 1 fetch, 0 sleeps.
C3_ErroredRaisesAndStops ==
    Polling("export") =>
        /\ \A i \in 1 .. Len(poll.seen) - 1 : poll.seen[i] # "errored"
        /\ (poll.seen # <<>> /\ Last(poll.seen) = "errored") =>
              /\ poll.pc = "raised"
              /\ poll.error = "ExportError"
              /\ Last(poll.trace) = FetchEvent
              /\ Len(poll.seen) = 1 => (Fetches(poll) = 1 /\ Sleeps(poll) = 0)

\* C3 witness: the very first fetch returned errored and ExportError was raised.
C3_Witness ==
    /\ Polling("export")
    /\ poll.seen = <<"errored">>
    /\ poll.pc = "raised"
    /\ poll.error = "ExportError"

SessionFailures == {"denied", "timed_out", "canceled"}

\* C4 as stated: a session that reaches denied, timed_out or canceled makes
\* settled() raise a failure error, and settled() returns normally only for
\* approved.
C4_AsStated ==
    (Polling("session") /\ poll.seen # <<>>) =>
        /\ Last(poll.seen) \in SessionFailures => poll.pc = "raised"
        /\ poll.pc = "returned" => Last(poll.seen) = "approved"

\* C4, amended: a session that reaches approved, denied, timed_out or canceled
\* makes settled() return that session normally, with no failure error raised
\* for denied, timed_out or canceled; in every such case polling stops: the
\* state is the last one seen and its fetch the last thing the loop did.
C4_SessionSettlesByReturning ==
    Polling("session") =>
        /\ \A i \in 1 .. Len(poll.seen) - 1 :
              poll.seen[i] \notin SessionFailures \cup {"approved"}
        /\ (poll.seen # <<>> /\
            Last(poll.seen) \in SessionFailures \cup {"approved"}) =>
              /\ poll.pc = "returned"
              /\ poll.error = "none"
              /\ StateOf(poll.result) = Last(poll.seen)
              /\ Last(poll.trace) = FetchEvent

\* C4 witness: after one sleep the session was denied and settled() returned it.
C4_Witness ==
    /\ Polling("session")
    /\ poll.seen = <<"requested", "denied">>
    /\ poll.pc = "returned"
    /\ StateOf(poll.result) = "denied"

-----------------------------------------------------------------------------
(* requestPage(): the paged-result cursor (client.ts).                      *)

\* The most items the remote result set holds.
MaxItems == 6

\* The number of items the server puts on a full page.
PageSize == 2

\* The default of options.perPage.
DefaultPerPage == 25

\* ceil(n / PageSize)
PagesFor(n) == (n + PageSize - 1) \div PageSize

\* The page count the server reports for n items: never less than one page.
TotalPages(n) == IF n = 0 THEN 1 ELSE PagesFor(n)

\* The highest page index the result set has at its largest.
MaxPage == TotalPages(MaxItems)

\* The items of page p of a result set of n items, in the order the server
\* returns them: item k is the k-th of the result set; an index outside the
\* result set has no items.
PageItems(n, p) ==
    LET first == (p - 1) * PageSize + 1
        last  == IF p * PageSize < n THEN p * PageSize ELSE n IN
    IF p >= 1 /\ first <= last
    THEN [i \in 1 .. last - first + 1 |-> first + i - 1]
    ELSE <<>>

\* The wire shape of a paginated list response.
PageBody(n, p) ==
    [ results     |-> PageItems(n, p),
      total_count |-> n,
      total_pages |-> TotalPages(n) ]

\* The responses a page request may get: the page, a page whose metadata
\* breaks the wire shape, a JSON body that is no page (404), a body that is
\* not JSON, a rejected key, an unhandled status.
PageResponses(sv, p) ==
    { Response(200, TRUE, PageBody(sv.n, p), UNDEF),
      Response(200, TRUE, [PageBody(sv.n, p) EXCEPT !.total_pages = 0], UNDEF),
      Response(200, TRUE, [PageBody(sv.n, p) EXCEPT !.total_count = -1], UNDEF),
      Response(404, TRUE, [error |-> "not_found"], UNDEF),
      Response(200, FALSE, PageBody(sv.n, p), UNDEF),
      Response(401, TRUE, [error |-> "unauthorized"], UNDEF),
      Response(500, FALSE, [error |-> "server"], UNDEF) }

\* const page = options.page || 1 (0 stands for an option left out, which
\* is as falsy as 0).
PageNumber(options) == IF options.page = 0 THEN 1 ELSE options.page

\* const perPage = options.perPage || 25
PerPage(options) ==
    IF options.perPage = 0 THEN DefaultPerPage ELSE options.perPage

\* { ...a, ...b }
Spread(a, b) ==
    [k \in DOMAIN a \cup DOMAIN b |-> IF k \in DOMAIN b THEN b[k] ELSE a[k]]

\* The parameters requestPage puts on the wire:
\* { page, per_page: perPage, ...options.params }
WireParams(options) ==
    Spread([page |-> PageNumber(options), per_page |-> PerPage(options)],
           options.params)

\* The request requestPage hands to request(): { ...options, params }, with
\* no baseURL, which is the "api" scope.
RequestOf(options) ==
    [ method |-> options.method,
      path   |-> options.path,
      scope  |-> "api",
      params |-> WireParams(options),
      config |-> options.ov ]

\* The options Event.search hands to requestPage for a phrase, the caller's
\* pagination options and the caller's config overrides.
SearchOptions(phrase, pg, perPage, ov) ==
    [ method |-> "GET", path |-> "events", params |-> [phrase |-> phrase],
      page |-> pg, perPage |-> perPage, ov |-> ov ]

\* The searches the model draws from: a phrase with nothing else set, and a
\* phrase with a page size and a policy key of the caller's.
Searches(pg) ==
    { SearchOptions("action:team.update", pg, 0, NoOverrides),
      SearchOptions("actor:jill", pg, 10,
                    [NoOverrides EXCEPT !.policyKey = "cs_override"]) }

\* The searches that carry no overrides.
PlainSearches(pg) == {options \in Searches(pg) : options.ov = NoOverrides}

\* A navigation that forgets the options of the cursor.
WithPageOnly(options, pg) == SearchOptions("", pg, 0, NoOverrides)

\* { ...options, page: pg }
WithPage(options, pg) == [options EXCEPT !.page = pg]

NoPage == [pc |-> "none"]

\* A requestPage() without its asserts on the page metadata.
PageOfUnchecked(options, r) ==
    LET o == Classify(r) IN
    IF o.kind # "return" THEN [kind |-> o.kind, page |-> NoPage]
    ELSE IF o.data = NoData THEN [kind |-> "TypeError", page |-> NoPage]
    ELSE IF ~({"total_count", "total_pages", "results"} \subseteq DOMAIN o.data)
    THEN [kind |-> "AssertionError", page |-> NoPage]
    ELSE [kind |-> "page",
          page |-> [ pc         |-> "page",
                     page       |-> PageNumber(options),
                     options    |-> options,
                     results    |-> o.data.results,
                     totalCount |-> o.data.total_count,
                     totalPages |-> o.data.total_pages,
                     response   |-> r,
                     via        |-> "none",
                     seen       |-> <<>>,
                     runs       |-> 0,
                     limit      |-> 0,
                     stale      |-> FALSE ]]

\* requestPage() after `await request(...)`: the outcome of the request, the
\* three asserts, and the Page object closed over page, options and response.
PageOf(options, r) ==
    LET o == Classify(r) IN
    IF o.kind # "return" THEN [kind |-> o.kind, page |-> NoPage]
    ELSE IF o.data = NoData THEN [kind |-> "TypeError", page |-> NoPage]
    ELSE IF ~({"total_count", "total_pages", "results"} \subseteq DOMAIN o.data)
    THEN [kind |-> "AssertionError", page |-> NoPage]
    ELSE IF ~(o.data.total_count >= 0 /\ o.data.total_pages > 0
              /\ Len(o.data.results) >= 0)
    THEN [kind |-> "AssertionError", page |-> NoPage]
    ELSE [kind |-> "page",
          page |-> [ pc         |-> "page",
                     page       |-> PageNumber(options),
                     options    |-> options,
                     results    |-> o.data.results,
                     totalCount |-> o.data.total_count,
                     totalPages |-> o.data.total_pages,
                     response   |-> r,
                     via        |-> "none",
                     seen       |-> <<>>,
                     runs       |-> 0,
                     limit      |-> 0,
                     stale      |-> FALSE ]]

\* requestPage() up to `await request(...)`: the request is handed to the
\* transport, or request() throws AuthenticationError.
PageCall(op, options) ==
    LET b == RequestBegin("api", options.ov) IN
    [ pc      |-> IF b.pc = "sent" THEN "sent" ELSE "done",
      op      |-> op,
      options |-> options,
      wire    |-> RequestOf(options),
      dispatched |-> 1,
      calls   |-> b.calls,
      merged  |-> b.merged,
      response |-> NoResponse,
      outcome |-> b.outcome.kind,
      result  |-> NoPage ]

\* No merge was made.
NoMerge == [none |-> TRUE]

\* A navigation that resolves to null without a request.
NoSuchPage(op) ==
    [ pc |-> "done", op |-> op, options |-> cur.options,
      wire |-> RequestOf(cur.options), dispatched |-> 0, calls |-> 0,
      merged |-> NoMerge,
      response |-> NoResponse, outcome |-> "null", result |-> NoPage ]

\* A nextPage() guard that lets the page after the last one be requested.
HasNextInclusive(page, totalPages) == page <= totalPages

\* nextPage(): `if (page >= response.total_pages) return Promise.resolve(null)`
HasNext(page, totalPages) == ~(page >= totalPages)

\* A previousPage() guard that lets page 0 be requested.
HasPreviousInclusive(page) == page >= 1

\* previousPage(): `if (page <= 1) return Promise.resolve(null)`
HasPrevious(page) == ~(page <= 1)

\* The caller searches: requestPage(options) with the page it asks for.
Search(options) ==
    /\ nav.pc = "idle" /\ it.pc = "none"
    /\ nav' = PageCall("search", options)
    /\ UNCHANGED <<config, env, d, poll, server, cur, it, pub>>

\* cur.nextPage()
NextPage ==
    /\ nav.pc = "idle" /\ it.pc = "none" /\ cur.pc = "page"
    /\ nav' = IF HasNext(cur.page, cur.totalPages)
              THEN PageCall("nextPage", WithPage(cur.options, cur.page + 1))
              ELSE NoSuchPage("nextPage")
    /\ UNCHANGED <<config, env, d, poll, server, cur, it, pub>>

\* cur.previousPage()
PreviousPage ==
    /\ nav.pc = "idle" /\ it.pc = "none" /\ cur.pc = "page"
    /\ nav' = IF HasPrevious(cur.page)
              THEN PageCall("previousPage", WithPage(cur.options, cur.page - 1))
              ELSE NoSuchPage("previousPage")
    /\ UNCHANGED <<config, env, d, poll, server, cur, it, pub>>

\* A firstPage() that goes one page back, down to page 1.
FirstPageStepsBack ==
    /\ nav.pc = "idle" /\ it.pc = "none" /\ cur.pc = "page"
    /\ nav' = PageCall("firstPage",
                       WithPage(cur.options,
                                IF cur.page > 2 THEN cur.page - 1 ELSE 1))
    /\ UNCHANGED <<config, env, d, poll, server, cur, it, pub>>

\* cur.firstPage()
FirstPage ==
    /\ nav.pc = "idle" /\ it.pc = "none" /\ cur.pc = "page"
    /\ nav' = PageCall("firstPage", WithPage(cur.options, 1))
    /\ UNCHANGED <<config, env, d, poll, server, cur, it, pub>>

\* cur.lastPage()
LastPage ==
    /\ nav.pc = "idle" /\ it.pc = "none" /\ cur.pc = "page"
    /\ nav' = PageCall("lastPage", WithPage(cur.options, cur.totalPages))
    /\ UNCHANGED <<config, env, d, poll, server, cur, it, pub>>

\* The transport resolves the request of a search or navigation.
PageRespond ==
    /\ nav.pc = "sent"
    /\ \E r \in PageResponses(server, nav.wire.params.page) :
         LET got == PageOf(nav.options, r) IN
           nav' = [nav EXCEPT !.pc = "done", !.response = r,
                              !.outcome = got.kind, !.result = got.page]
    /\ UNCHANGED <<config, env, d, poll, server, cur, it, pub>>

\* The caller keeps the page a search or navigation resolved to.
NavAdopt ==
    /\ nav.pc = "done" /\ nav.outcome = "page"
    /\ cur' = [nav.result EXCEPT !.via = nav.op]
    /\ nav' = NavIdle
    /\ UNCHANGED <<config, env, d, poll, server, it, pub>>

\* The caller lets the outcome of a search or navigation go.
NavDrop ==
    /\ nav.pc = "done"
    /\ nav' = NavIdle
    /\ UNCHANGED <<config, env, d, poll, server, cur, it, pub>>

\* The holder of a page learns nothing of a change of the result set: the
\* model marks what it holds as read before the change.
Stale(x) == IF "stale" \in DOMAIN x THEN [x EXCEPT !.stale = TRUE] ELSE x

\* A Page that is a live view: a change of the result set shows in the counts
\* of the Page the caller holds.
ServerChangeSeen(n) ==
    /\ n \in {server.n - 1, server.n + 1}
    /\ server' = [n |-> n]
    /\ cur' = IF cur.pc = "page"
              THEN [cur EXCEPT !.totalCount = n, !.totalPages = PagesFor(n)]
              ELSE cur
    /\ it' = Stale(it)
    /\ nav' = IF nav.pc = "done" THEN [nav EXCEPT !.result = Stale(@)] ELSE nav
    /\ UNCHANGED <<config, env, d, poll, pub>>

\* The remote result set changes: an item is added or removed.
ServerChange(n) ==
    /\ n \in {server.n - 1, server.n + 1}
    /\ server' = [n |-> n]
    /\ cur' = Stale(cur)
    /\ it' = Stale(it)
    /\ nav' = IF nav.pc = "done" THEN [nav EXCEPT !.result = Stale(@)] ELSE nav
    /\ UNCHANGED <<config, env, d, poll, pub>>

-----------------------------------------------------------------------------
(* The async iterator of a Page (client.ts asyncIterator).                  *)

\* A loop that starts at the page after the one the cursor holds.
LoopFirstAfter(page) == page + 1

\* `for (let p = page; ...`
LoopFirst(page) == page

\* A loop that runs through the last page.
LoopContinuesInclusive(p, totalPages) == p <= totalPages

\* `...; p < response.total_pages; ...`
LoopContinues(p, totalPages) == p < totalPages

\* The generator reaches the loop test with loop variable g.p: it calls
\* requestPage({ ...options, page: p }) and awaits, or it returns.
IterLoop(g) ==
    IF LoopContinues(g.p, g.src.totalPages)
    THEN LET b == RequestBegin("api", g.src.options.ov) IN
         IF b.pc = "sent"
         THEN [g EXCEPT !.pc = "await", !.last = NoResponse,
                        !.merged = b.merged,
                        !.reqs = Append(@, [page |-> g.p,
                                            delivered |-> Len(g.out),
                                            asked |-> g.asked])]
         ELSE [g EXCEPT !.pc = "thrown", !.error = b.outcome.kind,
                        !.merged = b.merged,
                        !.last = NoResponse]
    ELSE [g EXCEPT !.pc = "done"]

\* The inner `for (const item of ...) yield item` at position g.i of the page
\* in g.buf: the next item is yielded, or the outer loop goes on with p++.
IterInner(g) ==
    IF g.i < Len(g.buf)
    THEN [g EXCEPT !.pc = "yield", !.i = @ + 1,
                   !.out = Append(@, g.buf[g.i + 1])]
    ELSE IterLoop([g EXCEPT !.p = @ + 1])

\* An iterator that asks for the following page as soon as a page arrives.
IterReceivePrefetching(g, r) ==
    LET got == PageOf(WithPage(g.src.options, g.p), r) IN
    IF got.kind # "page"
    THEN [g EXCEPT !.pc = "thrown", !.error = got.kind]
    ELSE IterInner([g EXCEPT !.buf = got.page.results, !.i = 0,
                             !.got = Append(@, Len(got.page.results)),
                             !.reqs = Append(@, [page |-> g.p + 1,
                                                 delivered |-> Len(g.out),
                                                 asked |-> g.asked])])

\* `await requestPage(...)` resolves inside the generator: a failure is thrown
\* to the consumer, a page is iterated from its first item.
IterReceive(g, r) ==
    LET got == PageOf(WithPage(g.src.options, g.p), r) IN
    IF got.kind # "page"
    THEN [g EXCEPT !.pc = "thrown", !.error = got.kind]
    ELSE IterInner([g EXCEPT !.buf = got.page.results, !.i = 0,
                             !.got = Append(@, Len(got.page.results))])

\* The consumer takes cur[Symbol.asyncIterator](): no code of the generator
\* runs before the first next().
IterCreate ==
    /\ it.pc = "none" /\ nav.pc = "idle" /\ cur.pc = "page"
    /\ it' = [pc |-> "ready", src |-> cur, p |-> 0, buf |-> <<>>, i |-> 0,
              out |-> <<>>, reqs |-> <<>>, got |-> <<>>, asked |-> 0,
              last |-> NoResponse, merged |-> NoMerge,
              error |-> "none", stale |-> cur.stale]
    /\ UNCHANGED <<config, env, d, poll, server, cur, nav, pub>>

\* The consumer asks for an item: next() runs the generator to its next
\* yield, await or return.
IterNext ==
    /\ it.pc \in {"ready", "yield"}
    /\ LET g == [it EXCEPT !.asked = @ + 1] IN
         it' = IF it.pc = "ready"
               THEN IterLoop([g EXCEPT !.p = LoopFirst(it.src.page)])
               ELSE IterInner(g)
    /\ UNCHANGED <<config, env, d, poll, server, cur, nav, pub>>

\* The transport resolves the page request of the generator.
IterRespond ==
    /\ it.pc = "await"
    /\ \E r \in PageResponses(server, it.p) :
         it' = IterReceive([it EXCEPT !.last = r], r)
    /\ UNCHANGED <<config, env, d, poll, server, cur, nav, pub>>

\* The consumer stops asking and lets the iterator go.
IterDrop ==
    /\ it.pc \notin {"none", "await"}
    /\ it' = IterIdle
    /\ UNCHANGED <<config, env, d, poll, server, cur, nav, pub>>

InitPage ==
    /\ env = NoEnv
    /\ config = TestConfig
    /\ d = Idle
    /\ poll = PollIdle
    /\ server \in [n : 0 .. MaxItems]
    /\ cur = NoCursor
    /\ nav = NavIdle
    /\ it = IterIdle
    /\ pub = PubIdle

NextPage_ ==
    \/ \E pg \in 0 .. MaxPage + 1 : \E options \in Searches(pg) : Search(options)
    \/ NextPage
    \/ PreviousPage
    \/ FirstPage
    \/ LastPage
    \/ PageRespond
    \/ NavAdopt
    \/ NavDrop
    \/ IterCreate
    \/ IterNext
    \/ IterRespond
    \/ IterDrop
    \/ \E n \in 0 .. MaxItems : ServerChange(n)
    \/ \E v \in {NULL, "cs_test_001"} : PollSetKey("policyKey", v)

SpecPage == InitPage /\ [][NextPage_]_vars

-----------------------------------------------------------------------------
(* Claims about the cursor and its async iterator, checked under SpecPage.  *)

Iterating == it.pc # "none"

\* Every item of a result set of n items, in page order and, within a page,
\* in the order the server returns them.
RECURSIVE ItemsThrough(_, _)
ItemsThrough(n, lastPage) ==
    IF lastPage < 1 THEN <<>>
    ELSE ItemsThrough(n, lastPage - 1) \o PageItems(n, lastPage)

\* C1: a full drain of the async iterator of a cursor for page 1, against a
\* result set that does not change, yields the items of every page
\* 1..total_pages, each once, in page order and server order; the number of
\* items yielded is the sum of the sizes of those pages.
C1_DrainYieldsEveryPage ==
    (it.pc = "done" /\ it.src.page = 1 /\ ~it.stale) =>
        /\ it.out = ItemsThrough(server.n, it.src.totalPages)
        /\ Len(it.out) = server.n

\* What a full drain of a cursor for page 1 yields against an unchanged result
\* set: the pages before the last one.
C1_DrainStopsBeforeLastPage ==
    (it.pc = "done" /\ it.src.page = 1 /\ ~it.stale) =>
        it.out = ItemsThrough(server.n, it.src.totalPages - 1)

\* A nextPage() or previousPage() call on cur is under way or has resolved.
Navigated(op) == nav.pc # "idle" /\ nav.op = op /\ cur.pc = "page"

ResolvedNull == nav.pc = "done" /\ nav.outcome = "null" /\ nav.calls = 0

\* C5: nextPage() on a cursor whose page index is >= total_pages resolves to
\* null, and previousPage() on a cursor whose page index is <= 1 resolves to
\* null; neither issues a request nor raises.
C5_NoPageBeyondEnds ==
    /\ (Navigated("nextPage") /\ cur.page >= cur.totalPages) => ResolvedNull
    /\ (Navigated("previousPage") /\ cur.page <= 1) => ResolvedNull

\* C5 witness: nextPage() on the second and last page resolved to null.
C5_Witness ==
    /\ Navigated("nextPage")
    /\ cur.page = 2
    /\ cur.totalPages = 2
    /\ ResolvedNull

\* C6 as stated: the iterator first yields the items the cursor holds without
\* requesting the cursor's own page index, and its requests are for current+1,
\* current+2, ..., strictly increasing, none twice.
C6_AsStated ==
    Iterating =>
        /\ \A j \in DOMAIN it.reqs :
              /\ it.reqs[j].page = it.src.page + j
              /\ it.reqs[j].delivered >= Len(it.src.results)
        /\ \A k \in DOMAIN it.out :
              k <= Len(it.src.results) => it.out[k] = it.src.results[k]

RECURSIVE Sum(_)
Sum(q) == IF q = <<>> THEN 0 ELSE Head(q) + Sum(Tail(q))

\* C6, amended: the iterator yields nothing from the items the cursor holds:
\* it yields only items of the responses to its own requests, the first of
\* which is for the cursor's own page index (issued before any item is
\* yielded) and each later one for the next page index, strictly increasing,
\* none twice.
C6_RequestsFromOwnPageOn ==
    Iterating =>
        /\ \A j \in DOMAIN it.reqs : it.reqs[j].page = it.src.page + j - 1
        /\ it.reqs # <<>> => it.reqs[1].delivered = 0
        /\ Len(it.out) <= Sum(it.got)
        /\ Len(it.got) <= Len(it.reqs)

\* C6 witness: two requests were made, for the cursor's own page and for the
\* next one, and items of the second response have been yielded.
C6_Witness ==
    /\ Iterating
    /\ Len(it.reqs) = 2
    /\ it.reqs[1].page = it.src.page
    /\ it.reqs[2].page = it.src.page + 1
    /\ Len(it.got) = 2
    /\ Len(it.out) > it.got[1]

\* C7: the iterator is lazy. Every request was issued while a next() of the
\* consumer was outstanding (none before the first next(), none once the
\* consumer has stopped asking), and the request after a page was issued only
\* when every item of that page had been handed to the consumer.
C7_Lazy ==
    Iterating =>
        /\ it.asked = 0 => it.reqs = <<>>
        /\ \A j \in DOMAIN it.reqs :
              /\ it.reqs[j].asked > it.reqs[j].delivered
              /\ j - 1 <= Len(it.got)
              /\ it.reqs[j].delivered = Sum(SubSeq(it.got, 1, j - 1))

\* C7 witness: the consumer has taken every item of the first page requested
\* and one of the next, and stopped there.
C7_Witness ==
    /\ it.pc = "yield"
    /\ Len(it.reqs) = 2
    /\ it.reqs[2].delivered = PageSize
    /\ Len(it.out) = PageSize + 1
    /\ it.asked = Len(it.out)

-----------------------------------------------------------------------------
(* The classification of responses: request() under every status, content  *)
(* type and body the transport can hand back.                               *)

\* The status codes the switch names, and two it does not.
Statuses == {200, 201, 202, 204, 400, 404, 302, 401, 417, 301, 500}

\* The bodies of the responses: payloads, the JSON text `null`, a text that
\* is not JSON, and error bodies with and without message and messages.
Bodies ==
    { [id |-> "1"],
      NoData,
      Malformed,
      [error |-> "unauthorized"],
      [error |-> "unauthorized", message |-> "denied"],
      [error |-> "invalid", messages |-> << [name |-> "field", msgs |-> <<"bad">>] >>],
      [error |-> "invalid",
       messages |-> << [name |-> "a", msgs |-> <<"x", "y">>],
                       [name |-> "b", msgs |-> <<"z">>] >>],
      [error |-> "invalid", message |-> "denied",
       messages |-> << [name |-> "field", msgs |-> <<"bad">>] >>],
      [error |-> "invalid", messages |-> << >>] }

Locations == {UNDEF, "https://cased.localhost/download"}

DispatchResponses ==
    { Response(st, j, b, l) :
        st \in Statuses, j \in BOOLEAN, b \in Bodies, l \in Locations }

InitDispatch ==
    /\ env = NoEnv
    /\ config = TestConfig
    /\ d = Idle
    /\ poll = PollIdle
    /\ server = <<>>
    /\ cur = NoCursor
    /\ nav = NavIdle
    /\ it = IterIdle
    /\ pub = PubIdle

NextDispatch ==
    \/ \E scope \in Scopes : \E ov \in Overrides : RequestStart(scope, ov)
    \/ \E r \in DispatchResponses : RequestRespond(r)
    \/ RequestTaken

SpecDispatch == InitDispatch /\ [][NextDispatch]_vars

\* request() has settled on a response with one of the statuses.
Answered(statuses) ==
    d.pc = "done" /\ d.response # NoResponse /\ d.response.status \in statuses

\* The response declares JSON and its body is a JSON object.
JSONObject(r) == r.json /\ r.body \notin {Malformed, NoData}

\* C11 as stated: every 401 or 417 response makes request() raise APIError
\* and no other kind of error, with the message computed from the body.
C11_AsStated ==
    Answered({401, 417}) =>
        /\ d.outcome.kind = "APIError"
        /\ d.outcome.message = APIErrorMessage(d.response.body)

\* C11, what the code does: a 401 or 417 whose body was parsed to a JSON
\* object raises APIError with the message field, else the flattened
\* messages, else "unknown API error"; a body that was not parsed or is the
\* JSON null raises TypeError, a body that is not JSON raises SyntaxError.
C11_APIErrorFromParsedObject ==
    Answered({401, 417}) =>
        LET r == d.response IN
        /\ JSONObject(r) =>
             /\ d.outcome.kind = "APIError"
             /\ r.body = [error |-> "invalid",
                          messages |-> << [name |-> "field", msgs |-> <<"bad">>] >>]
                   => d.outcome.message = "field bad"
             /\ "message" \in DOMAIN r.body => d.outcome.message = r.body.message
             /\ DOMAIN r.body = {"error"} => d.outcome.message = "unknown API error"
        /\ (~r.json \/ r.body = NoData) => d.outcome.kind = "TypeError"
        /\ (r.json /\ r.body = Malformed) => d.outcome.kind = "SyntaxError"

\* C12 as stated: every response with status 200, 201, 202, 204, 400 or 404
\* makes request() return the payload: the parsed body when the content type
\* is JSON, null otherwise; no error is raised.
C12_AsStated ==
    Answered({200, 201, 202, 204, 400, 404}) =>
        /\ d.outcome.kind = "return"
        /\ d.outcome.data = IF d.response.json THEN d.response.body ELSE NoData

\* C12, what the code does: the payload is returned unless the response
\* declares JSON and its body is not JSON, which raises SyntaxError.
C12_ReturnsUnlessMalformed ==
    Answered({200, 201, 202, 204, 400, 404}) =>
        IF d.response.json /\ d.response.body = Malformed
        THEN d.outcome.kind = "SyntaxError"
        ELSE /\ d.outcome.kind = "return"
             /\ d.outcome.data = IF d.response.json THEN d.response.body
                                 ELSE NoData

\* C13 as stated: every 302 response makes request() return a payload whose
\* location is the location header, whatever the body and content type.
C13_AsStated ==
    Answered({302}) =>
        /\ d.outcome.kind = "return"
        /\ d.outcome.data = [location |-> d.response.location]

\* C13, what the code does: the location payload is returned unless the
\* response declares JSON and its body is not JSON.
C13_RedirectUnlessMalformed ==
    Answered({302}) =>
        IF d.response.json /\ d.response.body = Malformed
        THEN d.outcome.kind = "SyntaxError"
        ELSE d.outcome = [kind |-> "return",
                          data |-> [location |-> d.response.location]]

-----------------------------------------------------------------------------
(* Claims about the Page object and its navigation, checked under SpecPage. *)

\* A search or navigation has settled on a response of the transport.
Received == nav.pc = "done" /\ nav.response # NoResponse

\* The response was parsed to a body carrying the metadata of a page.
PageShaped(r) ==
    /\ r.status \in {200, 201, 202, 204, 400, 404}
    /\ r.json
    /\ {"total_count", "total_pages", "results"} \subseteq DOMAIN r.body

\* The metadata breaks total_count >= 0 or total_pages > 0.
BadMetadata(r) ==
    PageShaped(r) /\ (r.body.total_count < 0 \/ r.body.total_pages <= 0)

\* The Page objects the program holds.
Cursors ==
    (IF cur.pc = "page" THEN {cur} ELSE {}) \cup
    (IF nav.pc = "done" /\ nav.outcome = "page" THEN {nav.result} ELSE {}) \cup
    (IF it.pc # "none" THEN {it.src} ELSE {})

\* C14: requestPage fails, returning no Page, whenever the response has
\* total_count < 0 or total_pages <= 0; so every Page ever returned, by a
\* search or by a navigation, has totalCount >= 0 and pageCount > 0.
C14_FailsFastOnBadMetadata ==
    /\ (Received /\ BadMetadata(nav.response)) =>
          /\ nav.outcome = "AssertionError"
          /\ nav.result = NoPage
    /\ \A c \in Cursors : c.totalCount >= 0 /\ c.totalPages > 0

\* A navigation from a held page received metadata with total_pages = 0 and
\* failed, and the page held is still a sound one.
C14_Witness ==
    /\ Received
    /\ nav.op = "nextPage"
    /\ PageShaped(nav.response) /\ nav.response.body.total_pages = 0
    /\ nav.outcome = "AssertionError"
    /\ cur.pc = "page" /\ cur.totalPages = 2

\* The request that produced the Page c, asking for page index pg instead.
SameRequestFor(c, pg) ==
    LET made == RequestOf(c.options) IN
    [made EXCEPT !.params = [made.params EXCEPT !.page = pg]]

\* A navigation of the kind op was called on the page held.
Called(op) == nav.pc # "idle" /\ nav.op = op /\ cur.pc = "page"

\* The navigation dispatched one request, which reached the transport once
\* unless no credential resolved for it.
OneRequest ==
    /\ nav.dispatched = 1
    /\ nav.calls = IF nav.outcome = "AuthenticationError" THEN 0 ELSE 1

\* C15: below total_pages, nextPage() issues exactly one request, for page
\* index current+1, with the method, path, caller parameters, per-page size,
\* scope and config overrides of the request that produced the cursor; above
\* page 1, previousPage() does the same for page index current-1.
C15_NavigationKeepsRequest ==
    /\ (Called("nextPage") /\ cur.page < cur.totalPages) =>
          /\ OneRequest
          /\ nav.wire = SameRequestFor(cur, cur.page + 1)
          /\ nav.wire.params.phrase = cur.options.params.phrase
          /\ nav.wire.params.per_page = PerPage(cur.options)
    /\ (Called("previousPage") /\ cur.page > 1) =>
          /\ OneRequest
          /\ nav.wire = SameRequestFor(cur, cur.page - 1)
          /\ nav.wire.params.phrase = cur.options.params.phrase

\* nextPage() on page 1 of 2 of a search with a page size and a policy key
\* of the caller's resolved to page 2, requested with both.
C15_Witness ==
    /\ Called("nextPage") /\ nav.pc = "done" /\ nav.outcome = "page"
    /\ cur.page = 1 /\ cur.totalPages = 2
    /\ cur.options.perPage = 10
    /\ nav.wire.params = [page |-> 2, per_page |-> 10, phrase |-> "actor:jill"]
    /\ nav.wire.config.policyKey = "cs_override"
    /\ nav.calls = 1

-----------------------------------------------------------------------------
(* The synchronous iterator of a Page, and the Page against a result set    *)
(* that does not change.                                                    *)

\* The number of times the caller iterates over one Page.
MaxRuns == 2

\* An array iterator that starts at the second element.
ArrayIterateFromSecond(results, i, n) ==
    SubSeq(results, 2, IF n + 1 < Len(results) THEN n + 1 ELSE Len(results))

\* response.results[Symbol.iterator]() stepped by a for-of loop that breaks
\* after n items: from index i, the items handed out until the array ends.
RECURSIVE ArrayIterate(_, _, _)
ArrayIterate(results, i, n) ==
    IF n = 0 \/ i >= Len(results) THEN <<>>
    ELSE <<results[i + 1]>> \o ArrayIterate(results, i + 1, n - 1)

\* The caller iterates over the page it holds with for-of, breaking after n
\* items or running to the end: a fresh iterator over response.results,
\* run to completion within the caller's turn.
SyncIterate(n) ==
    /\ cur.pc = "page" /\ nav.pc = "idle" /\ it.pc = "none"
    /\ cur.runs < MaxRuns
    /\ cur' = [cur EXCEPT !.seen = ArrayIterate(cur.results, 0, n),
                          !.runs = @ + 1, !.limit = n]
    /\ UNCHANGED <<config, env, d, poll, server, nav, it, pub>>

InitCursor == InitPage

NextCursor ==
    \/ \E pg \in 0 .. MaxPage + 1 : \E options \in Searches(pg) : Search(options)
    \/ NextPage
    \/ PreviousPage
    \/ FirstPage
    \/ LastPage
    \/ PageRespond
    \/ NavAdopt
    \/ NavDrop
    \/ \E n \in 0 .. PageSize + 1 : SyncIterate(n)

SpecCursor == InitCursor /\ [][NextCursor]_vars

\* The items of the response that produced the Page c.
ResponseItems(c) == c.response.body.results

\* The first n items of the response that produced c, or all it has.
FirstItems(c, n) ==
    SubSeq(ResponseItems(c), 1,
           IF n < Len(ResponseItems(c)) THEN n ELSE Len(ResponseItems(c)))

\* C16: a Page's totalCount and pageCount are the total_count and total_pages
\* of the one response that produced it; iterating over it synchronously
\* yields that response's items in the order of the response, all of them
\* when run to the end, on every run, and no run issues a request.
C16_PageMirrorsItsResponse ==
    /\ [](\A c \in Cursors :
            /\ c.totalCount = c.response.body.total_count
            /\ c.totalPages = c.response.body.total_pages
            /\ c.runs > 0 => c.seen = FirstItems(c, c.limit))
    /\ [][(cur.pc = "page" /\ cur'.pc = "page" /\ cur'.runs = cur.runs + 1) =>
            (nav' = nav /\ it' = it /\ d' = d /\ cur'.response = cur.response)
         ]_vars

\* A full page of a result set was iterated to its end twice and the second
\* run yielded its items again.
C16_Witness ==
    /\ cur.pc = "page" /\ cur.runs = 2
    /\ cur.page = 2 /\ cur.totalCount = 4 /\ cur.totalPages = 2
    /\ cur.limit > PageSize /\ cur.seen = <<3, 4>>
    /\ nav.pc = "idle"

\* The navigation resolved to a Page.
Arrived == nav.pc = "done" /\ nav.outcome = "page"

\* The Page the navigation resolved to is a Page over the page c is over.
SamePage(c) ==
    /\ nav.result.page = c.page
    /\ nav.result.results = c.results
    /\ nav.result.totalCount = c.totalCount
    /\ nav.result.totalPages = c.totalPages

\* C17: against a result set that does not change, firstPage() requests page
\* index 1 and lastPage() requests page index total_pages whatever the
\* current page; applied to its own result, either requests the page index
\* that result is on and resolves to a Page over the same page.
C17_FirstAndLastIdempotent ==
    /\ Called("firstPage") =>
          /\ nav.dispatched = 1
          /\ nav.wire = SameRequestFor(cur, 1)
          /\ Arrived => nav.result.results = PageItems(server.n, 1)
    /\ Called("lastPage") =>
          /\ nav.dispatched = 1
          /\ nav.wire = SameRequestFor(cur, cur.totalPages)
          /\ Arrived =>
               nav.result.results = PageItems(server.n, TotalPages(server.n))
    /\ \A op \in {"firstPage", "lastPage"} :
          (Called(op) /\ cur.via = op) =>
              /\ nav.wire.params.page = cur.page
              /\ Arrived => SamePage(cur)

\* lastPage() was applied to the Page a lastPage() had resolved to, page 3 of
\* 3, and resolved to a Page over page 3 again.
C17_Witness ==
    /\ Called("lastPage") /\ Arrived
    /\ cur.via = "lastPage"
    /\ cur.page = 3 /\ cur.totalPages = 3
    /\ nav.result.page = 3 /\ nav.result.results = cur.results
    /\ cur.results # <<>>

-----------------------------------------------------------------------------
(* What settled() resolves to, checked under SpecPoll.                      *)

\* The state that ends a poll of the kind in success.
SuccessState(kind) == IF kind = "export" THEN "successful" ELSE "approved"

\* settled() returned on a fetch that observed the success state.
SettledInSuccess ==
    /\ poll.pc = "returned"
    /\ poll.seen # <<>>
    /\ Last(poll.seen) = SuccessState(poll.kind)

\* C18 as stated: when a poll reaches its success state, settled() returns
\* the resource obtained by the fetch that observed the state, for exports
\* and for sessions alike.
C18_AsStated ==
    SettledInSuccess => poll.result = poll.fetched

\* C18: when a session poll reaches approved, settled() returns the session
\* obtained by the fetch that observed that state; when an export poll
\* reaches successful, settled() returns without a value.
C18_SessionReturnedExportNot ==
    SettledInSuccess =>
        /\ StateOf(poll.fetched) = SuccessState(poll.kind)
        /\ poll.kind = "session" => poll.result = poll.fetched
        /\ poll.kind = "export" => poll.result = NoData

\* A session poll saw requested, slept, saw approved and returned the
\* approved session.
C18_Witness ==
    /\ SettledInSuccess
    /\ poll.kind = "session"
    /\ poll.seen = <<"requested", "approved">>
    /\ poll.result = [state |-> "approved"]

-----------------------------------------------------------------------------
(* Event processors (event-processor.ts).                                   *)

\* An audit event is a function from its keys to values; a value carries
\* what `typeof` says of it. A string is the sequence of its characters.
Str(chars) == [t |-> "string", v |-> chars]
Num(n)     == [t |-> "number", v |-> n]
Obj(event) == [t |-> "object", v |-> event]

\* {}
Empty == <<>>

\* The keys of events, in the order events are written down with, which is
\* the order `for (const key in event)` visits them in.
KeyOrder ==
    <<"cased_id", "timestamp", "action", "amount", "business", "username",
      "profile", ".cased">>

KeysOf(event) == SelectSeq(KeyOrder, LAMBDA k : k \in DOMAIN event)

\* [A-Za-z0-9_]
WordChar(c) == c \in {"a", "b", "_"}

\* The last index of the run of word characters that has reached index j.
RECURSIVE RunEnd(_, _)
RunEnd(value, j) ==
    IF j < Len(value) /\ WordChar(value[j + 1]) THEN RunEnd(value, j + 1)
    ELSE j

\* matches(value, /@([A-Za-z0-9_]+)/g): regexp.exec until it returns null;
\* each match with its 0-based index and its length, scanning on from the
\* end of the match before (i is the 1-based position exec looks at next).
RECURSIVE matches(_, _)
matches(value, i) ==
    IF i > Len(value) THEN <<>>
    ELSE IF value[i] = "@" /\ i < Len(value) /\ WordChar(value[i + 1])
    THEN LET j == RunEnd(value, i + 1) IN
         <<[index |-> i - 1, length |-> j - i + 1]>> \o matches(value, j + 1)
    ELSE matches(value, i + 1)

\* The PII ranges sensitivePattern maps the matches of a value to.
PatternRanges(label, value) ==
    LET ms == matches(value, 1) IN
    [n \in DOMAIN ms |-> [label |-> label, begin |-> ms[n].index,
                          end |-> ms[n].index + ms[n].length]]

\* The PII range sensitiveField gives a string value.
FieldRanges(field, value) ==
    << [label |-> field, begin |-> 0, end |-> Len(value)] >>

\* The processors the model draws from.
SensitiveField(field)   == [kind |-> "field", field |-> field]
SensitivePattern(label) == [kind |-> "pattern", label |-> label]

\* traverse(event) of sensitiveField and sensitivePattern over the keys of
\* the event still to visit: the PII collected so far with what the key adds.
RECURSIVE traverse(_, _, _, _)
traverse(event, p, keys, pii) ==
    IF keys = <<>> THEN pii
    ELSE
      LET key    == Head(keys)
          value  == event[key]
          nested == IF value.t = "object"
                    THEN traverse(value.v, p, KeysOf(value.v), pii)
                    ELSE pii
          after  ==
            IF key = ".cased" THEN pii
            ELSE IF p.kind = "field"
            THEN IF value.t = "string" /\ key = p.field
                 THEN Spread(pii, key :> FieldRanges(p.field, value.v))
                 ELSE nested
            ELSE IF value.t = "string"
                 THEN IF Len(PatternRanges(p.label, value.v)) > 0
                      THEN Spread(pii, key :> PatternRanges(p.label, value.v))
                      ELSE pii
                 ELSE nested
      IN traverse(event, p, Tail(keys), after)

\* event[".cased"], or undefined spread to {}.
CasedOf(event) ==
    IF ".cased" \in DOMAIN event THEN event[".cased"].v ELSE Empty

\* event[".cased"]?.pii, or undefined spread to {}.
PIIOf(event) ==
    IF "pii" \in DOMAIN CasedOf(event) THEN CasedOf(event)["pii"] ELSE Empty

\* An appendPII that writes a ".cased" record holding only the new PII.
appendPIIOnly(event, pii) ==
    Spread(event, ".cased" :> Obj([pii |-> pii]))

\* appendPII: { ...event, ".cased": { ...event[".cased"],
\*                                    pii: { ...event[".cased"]?.pii, ...pii } } }
appendPII(event, pii) ==
    Spread(event,
           ".cased" :> Obj(Spread(CasedOf(event),
                                  [pii |-> Spread(PIIOf(event), pii)])))

\* The call of a sensitiveField or sensitivePattern processor on an event:
\* the event it returns, and the event it was handed as the call leaves it
\* (the processor writes only to objects it has made itself).
Process(p, event) ==
    [ out |-> appendPII(event, traverse(event, p, KeysOf(event), Empty)),
      arg |-> event ]

\* The number of processors the model runs an event through.
MaxSteps == 2

\* The strings of the events: "@ab", "@a @b_", "ab", "@".
Handle     == <<"@", "a", "b">>
TwoHandles == <<"@", "a", " ", "@", "b", "_">>
NoHandle   == <<"a", "b">>
LoneAt     == <<"@">>

\* A PII range written by an earlier processor.
OldRange == << [label |-> "pii", begin |-> 0, end |-> 2] >>

\* The events the model draws from: with and without a username, a business,
\* a nested profile and a ".cased" record, which may carry PII ranges (of the
\* business, of the username) and another entry.
Events ==
    { Spread(Spread(Spread(Spread(
          [action |-> Str(NoHandle), amount |-> Num(42)], u), b), pr), c) :
        u  \in { Empty, [username |-> Str(Handle)],
                 [username |-> Str(TwoHandles)], [username |-> Str(LoneAt)] },
        b  \in { Empty, [business |-> Str(NoHandle)] },
        pr \in { Empty,
                 [profile |-> Obj([username |-> Str(Handle)])],
                 [profile |-> Obj(Spread([business |-> Str(TwoHandles)],
                                         ".cased" :> Obj([foo |-> Str(Handle)])))] },
        c  \in { Empty,
                 ".cased" :> Obj([foo |-> Str(NoHandle)]),
                 ".cased" :> Obj([pii |-> [business |-> OldRange],
                                  foo |-> Str(NoHandle)]),
                 ".cased" :> Obj([pii |-> [username |-> OldRange]]) } }

Processors ==
    { SensitiveField("username"), SensitiveField("business"),
      SensitivePattern("handle") }

\* The caller holds an event.
Holding(event) ==
    [pc |-> "event", event |-> event, arg |-> event, left |-> event,
     last |-> [kind |-> "none"], steps |-> 0]

\* The caller runs the event it holds through a processor and holds the
\* event the processor returns.
ApplyProcessor(p) ==
    /\ pub.pc = "event"
    /\ pub.steps < MaxSteps
    /\ LET r == Process(p, pub.event) IN
         pub' = [pub EXCEPT !.event = r.out, !.arg = pub.event,
                            !.left = r.arg, !.last = p, !.steps = @ + 1]
    /\ UNCHANGED <<config, env, d, poll, server, cur, nav, it>>

\* The caller starts over with another event.
TakeEvent(event) ==
    /\ pub.pc = "event"
    /\ pub.steps > 0
    /\ pub' = Holding(event)
    /\ UNCHANGED <<config, env, d, poll, server, cur, nav, it>>

InitProcessor ==
    /\ env = NoEnv
    /\ config = TestConfig
    /\ d = Idle
    /\ poll = PollIdle
    /\ server = <<>>
    /\ cur = NoCursor
    /\ nav = NavIdle
    /\ it = IterIdle
    /\ pub \in { Holding(e) : e \in Events }

NextProcessor ==
    \/ \E p \in Processors : ApplyProcessor(p)
    \/ \E e \in Events : TakeEvent(e)

SpecProcessor == InitProcessor /\ [][NextProcessor]_vars

-----------------------------------------------------------------------------
(* Claims about event processors, checked under SpecProcessor.              *)

\* A processor has been applied: pub.arg went in, pub.event came out.
Processed == pub.pc = "event" /\ pub.steps > 0

\* The string values of an event outside ".cased", each with its key.
RECURSIVE Leaves(_)
Leaves(event) ==
    UNION { IF k = ".cased" THEN {}
            ELSE IF event[k].t = "string" THEN { <<k, event[k].v>> }
            ELSE IF event[k].t = "object" THEN Leaves(event[k].v)
            ELSE {} : k \in DOMAIN event }

\* The string has an "@" followed by a word character.
HasHandle(chars) ==
    \E i \in 1 .. Len(chars) - 1 : chars[i] = "@" /\ WordChar(chars[i + 1])

\* The keys a processor matches in an event.
MatchedKeys(p, event) ==
    { l[1] : l \in { m \in Leaves(event) :
                       IF p.kind = "field" THEN m[1] = p.field
                       ELSE HasHandle(m[2]) } }

\* The label a processor gives its ranges.
LabelOf(p) == IF p.kind = "field" THEN p.field ELSE p.label

\* C20: the event sensitiveField or sensitivePattern returns keeps every
\* field of the input event, every other entry of its ".cased" record and
\* the PII ranges of the keys the processor did not match, and has a list of
\* the processor's ranges for each key it matched; the input event is as it
\* was.
C20_ProcessorKeepsEvent ==
    Processed =>
        LET in      == pub.arg
            out     == pub.event
            matched == MatchedKeys(pub.last, in) IN
        /\ \A k \in DOMAIN in \ {".cased"} :
              k \in DOMAIN out /\ out[k] = in[k]
        /\ \A f \in DOMAIN CasedOf(in) \ {"pii"} :
              f \in DOMAIN CasedOf(out) /\ CasedOf(out)[f] = CasedOf(in)[f]
        /\ \A k \in DOMAIN PIIOf(in) \ matched :
              k \in DOMAIN PIIOf(out) /\ PIIOf(out)[k] = PIIOf(in)[k]
        /\ \A k \in matched :
              /\ k \in DOMAIN PIIOf(out)
              /\ PIIOf(out)[k] # <<>>
              /\ \A n \in DOMAIN PIIOf(out)[k] :
                    PIIOf(out)[k][n].label = LabelOf(pub.last)
        /\ pub.left = in

\* sensitivePattern ran over an event whose ".cased" record had the ranges of
\* the business and another entry: the event returned has both, and two
\* ranges for the username, "@a" and "@b_".
C20_Witness ==
    /\ Processed
    /\ pub.last = SensitivePattern("handle")
    /\ PIIOf(pub.arg) = [business |-> OldRange]
    /\ "username" \in DOMAIN pub.arg /\ pub.arg["username"] = Str(TwoHandles)
    /\ "profile" \notin DOMAIN pub.arg
    /\ CasedOf(pub.event)["foo"] = Str(NoHandle)
    /\ PIIOf(pub.event) =
         [business |-> OldRange,
          username |-> << [label |-> "handle", begin |-> 0, end |-> 2],
                          [label |-> "handle", begin |-> 3, end |-> 6] >>]

-----------------------------------------------------------------------------
(* Event.publish (event.ts).                                                *)

\* The number of events the caller's collector takes.
MaxPublished == 2

\* The values of mockPublishEvents: a boolean or an array of events; an
\* override that does not carry the field reads as undefined.
MockFalse          == [kind |-> "boolean", on |-> FALSE]
MockTrue           == [kind |-> "boolean", on |-> TRUE]
MockArray(events)  == [kind |-> "array", events |-> events]
MockUndefined      == [kind |-> "undefined"]

\* if (config.mockPublishEvents): an array is truthy even when empty.
MockEnabled(mock) ==
    CASE mock.kind = "array"   -> TRUE
      [] mock.kind = "boolean" -> mock.on
      [] OTHER                 -> FALSE

\* test/mocks.ts: the processor of the test pipeline, which puts a cased_id
\* and a timestamp under the fields of the event.
StampProcessor == [kind |-> "stamp"]

Stamp(event) ==
    Spread([cased_id  |-> Str(<<"1">>), timestamp |-> Str(<<"2">>)], event)

\* composeEventProcessor(...eventProcessors)(event): each processor's result
\* is handed to the next.
RECURSIVE Compose(_, _)
Compose(eventProcessors, event) ==
    IF eventProcessors = <<>> THEN event
    ELSE Compose(Tail(eventProcessors),
                 IF Head(eventProcessors).kind = "stamp" THEN Stamp(event)
                 ELSE Process(Head(eventProcessors), event).out)

\* test/mocks.ts with the two fields of the configuration publish() reads.
PublishConfig ==
    Spread(TestConfig, [mockPublishEvents |-> MockFalse,
                        eventPipeline     |-> <<StampProcessor>>])

\* The per-call overrides of publish(): nothing, mockPublishEvents false or
\* true or the caller's array, each with or without a processor of its own.
PublishModes == {"none", "false", "true", "array"}

PublishPipelines == { <<>>, <<SensitiveField("username")>> }

PublishEvents ==
    { [action |-> Str(NoHandle)],
      [action |-> Str(NoHandle), username |-> Str(Handle)] }

\* config.mockPublishEvents of the overrides, the caller's array being the
\* one the caller holds.
OverrideMock(mode, collector) ==
    CASE mode = "false" -> MockFalse
      [] mode = "true"  -> MockTrue
      [] mode = "array" -> MockArray(collector)
      [] OTHER          -> MockUndefined

\* A publish() that looks at the merged configuration for mockPublishEvents.
PublishMockMerged(global, override) ==
    IF override.kind # "undefined" THEN override ELSE global

\* publish() looks at the overrides alone for mockPublishEvents.
PublishMock(global, override) == override

\* Event.publish(event, config): the pipeline runs, then the event goes to
\* the collector or to request(), which resolves the publish key and hands
\* the request to the transport or throws AuthenticationError.
Publish(event, mode, pipeline) ==
    /\ pub.pc = "idle"
    /\ Len(pub.collector) < MaxPublished
    /\ LET processed == Compose(config.eventPipeline \o pipeline, event)
           override  == OverrideMock(mode, pub.collector)
           mock      == PublishMock(config.mockPublishEvents, override)
           b         == RequestBegin("publish", NoOverrides)
           call      == [pub EXCEPT !.event = event, !.processed = processed,
                                    !.global = config.mockPublishEvents,
                                    !.override = override,
                                    !.before = pub.collector] IN
         IF MockEnabled(mock)
         THEN /\ pub' = [call EXCEPT
                           !.pc = "done", !.calls = 0, !.outcome = "resolved",
                           !.collector = IF mock.kind = "array"
                                         THEN Append(@, processed) ELSE @]
              /\ config' = config
         ELSE /\ pub' = [call EXCEPT
                           !.pc = IF b.pc = "sent" THEN "sent" ELSE "done",
                           !.calls = b.calls, !.outcome = b.outcome.kind]
              /\ config' = config
    /\ UNCHANGED <<env, d, poll, server, cur, nav, it>>

\* The transport resolves the request of publish().
PublishRespond(r) ==
    /\ pub.pc = "sent"
    /\ pub' = [pub EXCEPT !.pc = "done", !.outcome = Classify(r).kind]
    /\ UNCHANGED <<config, env, d, poll, server, cur, nav, it>>

\* The caller has taken the outcome of publish().
PublishTaken ==
    /\ pub.pc = "done"
    /\ pub' = [pub EXCEPT !.pc = "idle"]
    /\ UNCHANGED <<config, env, d, poll, server, cur, nav, it>>

\* The caller sets config.mockPublishEvents, or empties its own collector.
SetMock(mock) ==
    /\ pub.pc = "idle"
    /\ config' = [config EXCEPT !.mockPublishEvents = mock]
    /\ UNCHANGED <<env, d, poll, server, cur, nav, it, pub>>

ResetCollector ==
    /\ pub.pc = "idle" /\ pub.collector # <<>>
    /\ pub' = [pub EXCEPT !.collector = <<>>]
    /\ UNCHANGED <<config, env, d, poll, server, cur, nav, it>>

InitPublish ==
    /\ env = NoEnv
    /\ config = PublishConfig
    /\ d = Idle
    /\ poll = PollIdle
    /\ server = <<>>
    /\ cur = NoCursor
    /\ nav = NavIdle
    /\ it = IterIdle
    /\ pub = [pc |-> "idle", collector |-> <<>>, before |-> <<>>,
              event |-> Empty, processed |-> Empty,
              global |-> MockFalse, override |-> MockUndefined,
              calls |-> 0, outcome |-> "none"]

NextPublish ==
    \/ \E e \in PublishEvents : \E mode \in PublishModes :
       \E pipeline \in PublishPipelines : Publish(e, mode, pipeline)
    \/ \E r \in AuthResponses : PublishRespond(r)
    \/ PublishTaken
    \/ \E mock \in {MockFalse, MockTrue, MockArray(<<>>)} : SetMock(mock)
    \/ ResetCollector
    \/ \E v \in {NULL, "publish_test_001"} : PollSetKey("publishKey", v)

SpecPublish == InitPublish /\ [][NextPublish]_vars

\* publish() has been called and has gone as far as its request, if any.
Published == pub.pc \in {"sent", "done"}

\* C19 as stated: with mockPublishEvents enabled on the process-wide config
\* or in the overrides of the call, publish() makes no transport call; and
\* when mockPublishEvents is an array, the publish appends exactly one event,
\* the event after the pipeline, to that array.
C19_AsStated ==
    Published =>
        /\ (MockEnabled(pub.global) \/ MockEnabled(pub.override)) =>
              pub.calls = 0
        /\ pub.override.kind = "array" =>
              pub.collector = Append(pub.before, pub.processed)
        /\ (pub.global.kind = "array" /\ pub.override.kind = "undefined") =>
              config.mockPublishEvents.events =
                  Append(pub.global.events, pub.processed)

\* C19, what the code does: with mockPublishEvents enabled in the overrides
\* of the call, publish() makes no transport call and appends the event
\* after the pipeline to the array of the overrides; mockPublishEvents of
\* the process-wide config changes nothing.
C19_OverridesOnly ==
    Published =>
        /\ MockEnabled(pub.override) =>
              /\ pub.calls = 0
              /\ pub.outcome = "resolved"
        /\ pub.collector = IF pub.override.kind = "array"
                           THEN Append(pub.before, pub.processed)
                           ELSE pub.before
        /\ config.mockPublishEvents = pub.global
        /\ ~MockEnabled(pub.override) =>
              pub.calls = IF pub.outcome = "AuthenticationError" THEN 0 ELSE 1

-----------------------------------------------------------------------------
(* The pacing of settled(), checked under SpecPoll.                         *)

\* The loop slept the poll interval once between each two fetches.
OneSleepBetweenFetches ==
    \A i \in 1 .. Len(poll.trace) - 1 :
        /\ poll.trace[i] = FetchEvent =>
              poll.trace[i + 1] = SleepEvent(poll.interval)
        /\ poll.trace[i] # FetchEvent => poll.trace[i + 1] = FetchEvent

\* C21 as stated: between two consecutive fetches of one settled() there is
\* exactly one sleep of the poll interval, whatever the earlier fetch
\* returned; two fetches are never issued back to back.
C21_AsStated ==
    poll.pc # "idle" => OneSleepBetweenFetches

\* C21, what the code does: a session's settled() sleeps once between two
\* fetches; an export's settled() does so after pending and processing, and
\* fetches again at once, without a sleep, after a body whose state is none
\* the switch names.
C21_SleepUnlessStateUnnamed ==
    /\ Polling("session") => OneSleepBetweenFetches
    /\ Polling("export") =>
          /\ (\A i \in DOMAIN poll.seen : poll.seen[i] \in ExportStates)
                => OneSleepBetweenFetches
          /\ Cardinality({i \in 1 .. Len(poll.trace) - 1 :
                             /\ poll.trace[i] = FetchEvent
                             /\ poll.trace[i + 1] = FetchEvent}) =
                Cardinality({i \in DOMAIN poll.seen :
                               poll.seen[i] \notin ExportStates})

-----------------------------------------------------------------------------
(* Failures inside a poll loop and inside a drain of the async iterator:    *)
(* a caller that polls, or searches and drains, under one configuration.    *)

InitFailures == InitPage

NextFailures ==
    \/ /\ cur.pc = "none" /\ nav.pc = "idle"
       /\ \/ \E kind \in PollKinds :
             \E interval \in {DefaultInterval(kind), CallerPollInterval} :
                SettledStart(kind, interval, NoOverrides)
          \/ SettledRespond
          \/ SettledWake
          \/ SettledTaken
    \/ /\ poll.pc = "idle"
       /\ \/ \E pg \in 1 .. MaxPage :
               \E options \in PlainSearches(pg) : Search(options)
          \/ PageRespond
          \/ NavAdopt
          \/ NavDrop
          \/ IterCreate
          \/ IterNext
          \/ IterRespond
          \/ IterDrop
    \/ \E v \in {NULL, "cs_test_001"} : PollSetKey("policyKey", v)
    \/ \E v \in {NULL, "guard_test_001"} : PollSetKey("guardApplicationKey", v)

SpecFailures == InitFailures /\ [][NextFailures]_vars

\* The response is one request() fails on: a rejected call, or a status the
\* switch does not name.
FailureStatus(r) == r.status \notin {200, 201, 202, 204, 400, 404, 302}

\* The error request() fails with on such a response.
FailureOf(r) == IF r.status \in {401, 417} THEN "APIError" ELSE "AssertionError"

\* The fetch of the poll loop failed: no credential resolved, or the
\* response was a failure.
FetchFailed ==
    /\ poll.pc # "idle"
    /\ \/ poll.error = "AuthenticationError"
       \/ (poll.pc # "fetch" /\ poll.last # NoResponse /\ FailureStatus(poll.last))

\* The page request of the drain failed.
PageRequestFailed ==
    /\ it.pc # "none"
    /\ \/ it.error = "AuthenticationError"
       \/ (it.pc # "await" /\ it.last # NoResponse /\ FailureStatus(it.last))

\* C22: a fetch that fails inside settled() (AuthenticationError, APIError,
\* an unhandled status) reaches the caller of settled() as it is, and the
\* loop does not fetch or sleep after it; a page request that fails while
\* the async iterator is drained reaches the consumer as it is and no later
\* page is requested.
C22_FailuresPropagate ==
    /\ [](FetchFailed =>
            /\ poll.pc = "raised"
            /\ poll.last # NoResponse => poll.error = FailureOf(poll.last)
            /\ Last(poll.trace) = FetchEvent)
    /\ [](PageRequestFailed =>
            /\ it.pc = "thrown"
            /\ it.last # NoResponse =>
                 (it.error = FailureOf(it.last) /\ Len(it.reqs) = Len(it.got) + 1))
    /\ [][(poll.pc = "raised" => (poll' = poll \/ poll' = PollIdle))
          /\ (it.pc = "thrown" => (it' = it \/ it' = IterIdle))]_vars

\* A poll slept once and its second fetch was rejected with a 401: settled()
\* raised APIError after two fetches.
C22_Witness ==
    /\ poll.pc = "raised" /\ poll.error = "APIError"
    /\ poll.last # NoResponse /\ poll.last.status = 401
    /\ Fetches(poll) = 2 /\ Sleeps(poll) = 1

-----------------------------------------------------------------------------
(* settled() against a resource that lives on the server: the transport     *)
(* answers each fetch with the state the resource is in, or rejects it.     *)

\* The state a resource of the kind is created in.
FirstState(kind) == IF kind = "export" THEN "pending" ELSE "requested"

\* The states in which the server leaves a resource for good.
TerminalStates(kind) ==
    IF kind = "export" THEN {"successful", "errored"}
    ELSE SessionStates \ {"requested"}

\* The states a resource in state s may move to.
MovesFrom(kind, s) ==
    IF s \in TerminalStates(kind) THEN {}
    ELSE IF s = "pending" THEN {"processing"} \cup TerminalStates(kind)
    ELSE TerminalStates(kind)

\* The resource moves on.
ResourceMove(s) ==
    /\ s \in MovesFrom(server.kind, server.state)
    /\ server' = [server EXCEPT !.state = s]
    /\ UNCHANGED <<config, env, d, poll, cur, nav, it, pub>>

\* The transport answers the fetch of the poll loop with the resource as it
\* is.
SettledAnswer ==
    /\ poll.pc = "fetch"
    /\ LET r == Response(200, TRUE, [state |-> server.state], UNDEF)
           p == AfterFetch([poll EXCEPT !.last = r], r) IN
         /\ p.pc = "sleep" => Fetches(p) < MaxFetches
         /\ poll' = p
    /\ UNCHANGED <<config, env, d, server, cur, nav, it, pub>>

\* The API rejects the key of the fetch.
SettledReject ==
    /\ poll.pc = "fetch"
    /\ LET r == Response(401, TRUE, [error |-> "unauthorized"], UNDEF) IN
         poll' = AfterFetch([poll EXCEPT !.last = r], r)
    /\ UNCHANGED <<config, env, d, server, cur, nav, it, pub>>

\* The caller polls the resource the server has.
SettledOn(interval) == SettledStart(server.kind, interval, NoOverrides)

InitSettle ==
    /\ env = NoEnv
    /\ config = TestConfig
    /\ d = Idle
    /\ poll = PollIdle
    /\ server \in { [kind |-> k, state |-> FirstState(k)] : k \in PollKinds }
    /\ cur = NoCursor
    /\ nav = NavIdle
    /\ it = IterIdle
    /\ pub = PubIdle

NextSettle ==
    \/ \E interval \in {DefaultInterval(server.kind), CallerPollInterval} :
          SettledOn(interval)
    \/ SettledAnswer
    \/ SettledReject
    \/ SettledWake
    \/ SettledTaken
    \/ \E s \in ExportStates \cup SessionStates : ResourceMove(s)

\* The timer of a sleep fires and the transport answers every request.
SpecSettle ==
    InitSettle /\ [][NextSettle]_vars
      /\ WF_vars(SettledWake) /\ WF_vars(SettledAnswer)

\* settled() has returned or raised.
Settled == poll.pc \in {"returned", "raised"}

\* The resource is in a state the server leaves it in.
ResourceTerminal == server.state \in TerminalStates(server.kind)

\* C23: settled() ends only on a fetch that returned a terminal state or
\* failed: once the resource stays in a terminal state, a running settled()
\* eventually returns or raises; as long as every fetch has returned a
\* pending state the loop has neither returned nor raised, and after each
\* sleep it fetches again, with no timeout and no count of polls.
C23_SettlesIffTerminalOrFailed ==
    /\ [](Settled =>
            \/ (poll.seen # <<>> /\ Last(poll.seen) \in TerminalStates(poll.kind))
            \/ poll.error \in {"AuthenticationError", "APIError"})
    /\ []((poll.pc = "sleep" /\ Fetches(poll) < MaxFetches)
             => ENABLED SettledWake)
    /\ []((poll.pc # "idle" /\ poll.seen # <<>> /\
           \A i \in DOMAIN poll.seen :
              poll.seen[i] \notin TerminalStates(poll.kind)) =>
               (poll.pc \in {"sleep", "fetch"} \/ poll.error = "APIError"))
    /\ ((poll.pc # "idle" /\ ResourceTerminal) ~> Settled)

\* An export was polled while pending and processing, became successful,
\* and settled() returned after the third fetch.
C23_Witness ==
    /\ poll.pc = "returned" /\ poll.kind = "export"
    /\ poll.seen = <<"pending", "processing", "successful">>
    /\ server.state = "successful"

-----------------------------------------------------------------------------
(* downloadURL() (export.ts): settled(), then one request for the location. *)

ExportLocation == "https://cased-exports.localhost/exports/1.json"

\* `new URL(location)` accepts an absolute URL and throws TypeError otherwise.
IsURL(location) == location = ExportLocation

\* What the transport may answer the download request with: the redirect of
\* test/mocks.ts, a redirect to a relative path, a redirect with no Location
\* header, an export document, and a rejected key.
DownloadResponses ==
    { Response(302, FALSE, Malformed, ExportLocation),
      Response(302, FALSE, Malformed, "/exports/1.json"),
      Response(302, FALSE, Malformed, UNDEF),
      Response(200, TRUE, [state |-> "successful"], UNDEF),
      Response(204, FALSE, Malformed, UNDEF),
      Response(401, TRUE, [error |-> "unauthorized"], UNDEF) }

\* The lines of downloadURL() after `await request(...)`.
DownloadResult(o) ==
    IF o.kind # "return" THEN o
    ELSE IF o.data = NoData THEN [kind |-> "AssertionError", data |-> NoData]
    ELSE IF "location" \notin DOMAIN o.data \/ o.data.location = UNDEF
    THEN [kind |-> "AssertionError", data |-> NoData]
    ELSE IF ~IsURL(o.data.location) THEN [kind |-> "TypeError", data |-> NoData]
    ELSE [kind |-> "return", data |-> [href |-> o.data.location]]

\* A downloadURL() that asks for the location whatever settled() did.
DownloadStepSwallowing(p) ==
    IF p.pc \in {"returned", "raised"} THEN "request" ELSE "wait"

\* Where `await settled(...)` leaves downloadURL(): waiting, going on to the
\* request, or rejected with the error of settled().
DownloadStep(p) ==
    CASE p.pc = "returned" -> "request"
      [] p.pc = "raised"   -> "raise"
      [] OTHER             -> "wait"

\* The caller calls downloadURL(token, pollInterval, config).
DownloadURL(interval, ov) ==
    /\ d.pc = "idle" /\ poll.pc = "idle"
    /\ poll' = PollFetch([pc |-> "idle", kind |-> "export",
                          interval |-> interval,
                          ov |-> ov, trace |-> <<>>, seen |-> <<>>,
                          calls |-> 0, fetched |-> NoData, last |-> NoResponse,
                          error |-> "none", merged |-> config, keys |-> <<>>,
                          result |-> NoData])
    /\ d' = [pc |-> "settling", ov |-> ov, requests |-> 0, calls |-> 0,
             polled |-> 0, response |-> NoResponse,
             outcome |-> [kind |-> "none", data |-> NoData]]
    /\ UNCHANGED <<config, env, server, cur, nav, it, pub>>

\* settled() has returned: downloadURL() calls request() for the location.
DownloadRequest ==
    /\ d.pc = "settling" /\ DownloadStep(poll) = "request"
    /\ LET b == RequestBegin("api", d.ov) IN
         d' = [d EXCEPT !.pc = b.pc, !.requests = @ + 1, !.calls = @ + b.calls,
                        !.polled = Fetches(poll), !.outcome = b.outcome]
    /\ UNCHANGED <<config, env, poll, server, cur, nav, it, pub>>

\* settled() has thrown: the rejection leaves downloadURL().
DownloadRaise ==
    /\ d.pc = "settling" /\ DownloadStep(poll) = "raise"
    /\ d' = [d EXCEPT !.pc = "done",
                      !.outcome = [kind |-> poll.error, data |-> NoData]]
    /\ UNCHANGED <<config, env, poll, server, cur, nav, it, pub>>

\* The transport resolves the download request.
DownloadRespond ==
    /\ d.pc = "sent"
    /\ \E r \in DownloadResponses :
         d' = [d EXCEPT !.pc = "done", !.response = r,
                        !.outcome = DownloadResult(Classify(r))]
    /\ UNCHANGED <<config, env, poll, server, cur, nav, it, pub>>

\* The caller has taken the outcome of downloadURL().
DownloadTaken ==
    /\ d.pc = "done"
    /\ d' = Idle
    /\ poll' = PollIdle
    /\ UNCHANGED <<config, env, server, cur, nav, it, pub>>

InitDownload == InitPoll

NextDownload ==
    \/ \E interval \in {ExportPollInterval, CallerPollInterval} :
          DownloadURL(interval, NoOverrides)
    \/ SettledRespond
    \/ SettledWake
    \/ DownloadRequest
    \/ DownloadRaise
    \/ DownloadRespond
    \/ DownloadTaken
    \/ \E v \in {NULL, "cs_test_001"} : PollSetKey("policyKey", v)

SpecDownload == InitDownload /\ [][NextDownload]_vars

\* A downloadURL() call is under way or has ended.
Downloading == d.pc # "idle"

\* C24: downloadURL() calls request() for the download location only after
\* settled() has returned for the export, and once; when settled() throws,
\* for an errored export with ExportError, that error is the outcome of
\* downloadURL() and no download request is made.
C24_DownloadAfterSettled ==
    /\ [](Downloading =>
            /\ d.requests <= 1 /\ d.calls <= d.requests
            /\ d.requests = 1 =>
                 /\ poll.pc = "returned"
                 /\ Last(poll.seen) = "successful"
                 /\ d.polled = Fetches(poll)
            /\ (poll.pc = "returned" /\ d.pc # "settling") => d.requests = 1
            /\ d.calls = 1 <=>
                 (d.requests = 1 /\ d.outcome.kind # "AuthenticationError")
            /\ poll.pc = "raised" =>
                 /\ d.requests = 0
                 /\ d.pc \in {"settling", "done"}
                 /\ d.pc = "done" => d.outcome.kind = poll.error
            /\ (poll.seen # <<>> /\ Last(poll.seen) = "errored") =>
                 (poll.pc = "raised" /\ poll.error = "ExportError"))
    /\ [][(Downloading /\ d.pc # "sent" /\ d.pc' = "sent") =>
            (d.pc = "settling" /\ poll.pc = "returned" /\ poll' = poll)]_vars

\* The export was pending, processing, then successful; the one download
\* request followed the third fetch and downloadURL() returned the URL.
C24_Witness ==
    /\ d.pc = "done" /\ d.outcome.kind = "return"
    /\ d.outcome.data = [href |-> ExportLocation]
    /\ poll.seen = <<"pending", "processing", "successful">>
    /\ d.requests = 1 /\ d.calls = 1 /\ d.polled = 3

-----------------------------------------------------------------------------
(* Claims about the transport call of request(), checked under SpecDispatch.*)

\* The statuses the switch of request() names.
HandledStatuses == {200, 201, 202, 204, 302, 400, 401, 404, 417}

\* request() resolved a key for the call.
CredentialResolved == d.pc \in {"sent", "done"} /\ d.key # NULL

\* C25: a call of request() that resolved a key hands exactly one request to
\* the transport and never a second one, and a call that did not hands none;
\* a response whose status the switch does not name ends the call with an
\* uncaught failure that is no payload, no APIError and no
\* AuthenticationError: the failed assertion of the default case whenever the
\* body was read.
C25_OneCallAndFatalDefault ==
    /\ [](d.pc \in {"sent", "done"} =>
            /\ d.calls = IF CredentialResolved THEN 1 ELSE 0
            /\ d.pc = "sent" => CredentialResolved)
    /\ [](Answered(Statuses \ HandledStatuses) =>
            /\ d.calls = 1
            /\ d.outcome.kind \notin {"return", "APIError", "AuthenticationError"}
            /\ d.outcome.data = NoData
            /\ d.outcome.kind =
                 IF d.response.json /\ d.response.body = Malformed
                 THEN "SyntaxError" ELSE "AssertionError")
    /\ [][(d.pc \in {"sent", "done"} /\ d'.pc # "idle") =>
             (d'.calls = d.calls /\ d'.key = d.key /\ d'.pc = "done")]_vars

\* A 500 answer with a JSON body ended the call with the assertion failure,
\* after one transport call.
C25_Witness ==
    /\ Answered({500}) /\ d.response.json /\ d.response.body = [id |-> "1"]
    /\ d.outcome.kind = "AssertionError" /\ d.calls = 1

-----------------------------------------------------------------------------
(* The configuration merge of request() across the dispatches of one poll   *)
(* loop or one chain of page requests, while the caller rotates the key of  *)
(* the process-wide configuration.                                          *)

RotatedKey == "cs_rotated"

PolicyKeyOverride == [NoOverrides EXCEPT !.policyKey = "cs_override"]

\* The page a chain of page requests starts from: a search that names no
\* page, or page 1.
StartPages == {1}

InitMerge == InitPage

NextMerge ==
    \/ /\ cur.pc = "none" /\ nav.pc = "idle"
       /\ \/ \E kind \in PollKinds : \E ov \in {NoOverrides, PolicyKeyOverride} :
                SettledStart(kind, CallerPollInterval, ov)
          \/ SettledRespond
          \/ SettledWake
          \/ SettledTaken
    \/ /\ poll.pc = "idle"
       /\ \/ \E pg \in StartPages : \E options \in Searches(pg) : Search(options)
          \/ PageRespond
          \/ NavAdopt
          \/ NavDrop
          \/ NextPage
          \/ PreviousPage
          \/ LastPage
          \/ IterCreate
          \/ IterNext
          \/ IterRespond
          \/ IterDrop
    \/ \E v \in {NULL, "cs_test_001", RotatedKey} : PollSetKey("policyKey", v)

SpecMerge == InitMerge /\ [][NextMerge]_vars

\* The number of times the poll loop, the navigation call and the generator
\* have entered request().
PollDispatches(p) == IF p.pc = "idle" THEN 0 ELSE Len(p.keys)
NavDispatches(n)  == IF n.pc = "idle" THEN 0 ELSE n.dispatched
IterDispatches(g) ==
    IF g.pc = "none" THEN 0
    ELSE Len(g.reqs) +
         (IF g.pc = "thrown" /\ g.error = "AuthenticationError" THEN 1 ELSE 0)

\* m is the configuration c with every field the overrides carry replaced.
MergedAt(c, ov, m) ==
    /\ DOMAIN m = DOMAIN c
    /\ \A f \in DOMAIN c :
          m[f] = IF f \in OverrideFields /\ ov[f] # ABSENT THEN ov[f] ELSE c[f]

\* C26: every dispatch of a poll loop, a navigation or an asynchronous drain
\* merges the process-wide configuration as it is at that moment with the
\* overrides of the call, the overrides winning field by field; a later
\* assignment to the process-wide configuration leaves the merge of a
\* dispatch already made as it was and is seen by the next dispatch.
C26_MergePerDispatch ==
    [][/\ PollDispatches(poll') > PollDispatches(poll) =>
            /\ PollDispatches(poll') = PollDispatches(poll) + 1
            /\ MergedAt(config, poll'.ov, poll'.merged)
       /\ (poll.pc # "idle" /\ poll'.pc # "idle" /\
           PollDispatches(poll') = PollDispatches(poll)) =>
            (poll'.merged = poll.merged /\ poll'.keys = poll.keys)
       /\ NavDispatches(nav') > NavDispatches(nav) =>
            MergedAt(config, nav'.options.ov, nav'.merged)
       /\ (nav.pc # "idle" /\ nav'.pc # "idle") => nav'.merged = nav.merged
       /\ IterDispatches(it') > IterDispatches(it) =>
            MergedAt(config, it'.src.options.ov, it'.merged)
       /\ (it.pc # "none" /\ it'.pc # "none" /\
           IterDispatches(it') = IterDispatches(it)) =>
            it'.merged = it.merged
      ]_vars

\* One poll loop with no overrides fetched with the first key, then with the
\* rotated key; the key was unset afterwards and the fetch in flight keeps
\* the merge it made.
C26_Witness ==
    /\ poll.pc = "fetch" /\ poll.kind = "export" /\ poll.ov = NoOverrides
    /\ poll.keys = <<"cs_test_001", RotatedKey>>
    /\ poll.merged.policyKey = RotatedKey
    /\ config.policyKey = NULL

-----------------------------------------------------------------------------
(* request() and the params object of its caller (client.ts, cli branch).   *)

\* The params objects the caller passes: user_token missing, empty or set,
\* userToken missing or set. ABSENT marks a property the object lacks.
ParamSets ==
    { [user_token |-> a, userToken |-> b] :
        a \in {ABSENT, "", "tok_own"}, b \in {ABSENT, "tok_call"} }

\* params[k]: undefined for a property the object lacks.
ParamAt(params, k) == IF params[k] = ABSENT THEN UNDEF ELSE params[k]

\* if (!options.params.user_token)
\*   options.params.user_token = options.params.userToken || config.guardUserToken
Backfill(params, merged) ==
    IF ~Truthy(ParamAt(params, "user_token"))
    THEN [params EXCEPT !.user_token =
             OrElse(ParamAt(params, "userToken"), merged.guardUserToken)]
    ELSE params

\* The params object when request() has resolved the credential or thrown:
\* the cli branch reaches the backfill only past its key check.
ParamsAfter(scope, merged, params) ==
    IF scope = "cli" /\ Truthy(merged.guardApplicationKey)
    THEN Backfill(params, merged)
    ELSE params

\* The properties of params that go on the wire: querystring.stringify and
\* JSON.stringify write every own property, null included.
WireKeys(params) == {k \in DOMAIN params : params[k] \notin {ABSENT, UNDEF}}

\* request() up to its await, with the params object it was given.
RequestBeginWith(scope, ov, params) ==
    LET b == RequestBegin(scope, ov) IN
    [ pc |-> b.pc, scope |-> b.scope, merged |-> b.merged, key |-> b.key,
      calls |-> b.calls, response |-> b.response, outcome |-> b.outcome,
      given |-> params, params |-> ParamsAfter(scope, b.merged, params) ]

\* The caller calls request() with a params object.
RequestStartWith(scope, ov, params) ==
    /\ d.pc = "idle"
    /\ d' = RequestBeginWith(scope, ov, params)
    /\ UNCHANGED <<config, env, poll, server, cur, nav, it, pub>>

UserTokenOverride == [NoOverrides EXCEPT !.guardUserToken = "tok_override"]

InitParams == InitDispatch

NextParams ==
    \/ \E scope \in Scopes : \E ov \in {NoOverrides, UserTokenOverride} :
       \E params \in ParamSets : RequestStartWith(scope, ov, params)
    \/ \E r \in AuthResponses : RequestRespond(r)
    \/ RequestTaken
    \/ \E v \in {NULL, "tok_config"} : SetConfig("guardUserToken", v)
    \/ \E v \in {NULL, "guard_test_001"} : SetConfig("guardApplicationKey", v)

SpecParams == InitParams /\ [][NextParams]_vars

\* The params object carries a user_token / no token is known for the call.
CarriesUserToken(params) == Truthy(ParamAt(params, "user_token"))
NoTokenKnown(params, merged) ==
    ~Truthy(ParamAt(params, "userToken")) /\ ~Truthy(merged.guardUserToken)

\* The call is on guard scope and resolved its credential.
GuardResolved == d.scope = "cli" /\ d.key # NULL

\* C27 as stated: on guard scope a params object with no user_token gets it
\* from params.userToken, else from config.guardUserToken, and is left as it
\* was when neither is set; a params object that carries a user_token, a call
\* on another scope and a call that fails credential resolution leave the
\* params object as it was.
C27_AsStated ==
    Dispatched =>
        IF GuardResolved /\ ~CarriesUserToken(d.given)
        THEN IF Truthy(ParamAt(d.given, "userToken"))
             THEN d.params = [d.given EXCEPT !.user_token = d.given.userToken]
             ELSE IF Truthy(d.merged.guardUserToken)
             THEN d.params = [d.given EXCEPT !.user_token = d.merged.guardUserToken]
             ELSE d.params = d.given
        ELSE d.params = d.given

\* C27, what the code does: as stated, but when neither token is set the
\* backfill still assigns, and user_token becomes a property holding the
\* value of config.guardUserToken (null) that goes on the wire.
C27_BackfillAlwaysAssigns ==
    Dispatched =>
        IF GuardResolved /\ ~CarriesUserToken(d.given)
        THEN /\ d.params.userToken = d.given.userToken
             /\ d.params.user_token =
                  IF Truthy(ParamAt(d.given, "userToken"))
                  THEN d.given.userToken ELSE d.merged.guardUserToken
             /\ "user_token" \in WireKeys(d.params)
        ELSE d.params = d.given

\* A guard-scope call with empty params and no token anywhere was sent with
\* user_token: null in its params.
C27_NullAssigned ==
    /\ d.pc = "sent" /\ d.scope = "cli"
    /\ d.given = [user_token |-> ABSENT, userToken |-> ABSENT]
    /\ NoTokenKnown(d.given, d.merged)
    /\ d.params.user_token = NULL

-----------------------------------------------------------------------------
(* Chains of navigation and drains that start from page 1 of a search,      *)
(* while the result set grows and shrinks.                                  *)

InitChain == InitPage

NextChain ==
    \/ \E pg \in StartPages : \E options \in Searches(pg) : Search(options)
    \/ NextPage
    \/ PreviousPage
    \/ FirstPage
    \/ LastPage
    \/ PageRespond
    \/ NavAdopt
    \/ NavDrop
    \/ IterCreate
    \/ IterNext
    \/ IterRespond
    \/ IterDrop
    \/ \E n \in 0 .. MaxItems : ServerChange(n)

SpecChain == InitChain /\ [][NextChain]_vars

\* A navigation operation of cur has made a page request.
NavRequested(ops) ==
    nav.pc \in {"sent", "done"} /\ nav.op \in ops /\ nav.dispatched = 1

\* The page indices the generator of it.src has requested.
DrainedPages == IF it.pc = "none" THEN {}
                ELSE {it.reqs[i].page : i \in DOMAIN it.reqs}

\* C28 as stated: in a chain that starts from a cursor for a page within
\* 1..total_pages, no navigation operation and no drain requests a page index
\* greater than the total_pages of the cursor it is called on.
C28_AsStated ==
    /\ NavRequested({"nextPage", "previousPage", "firstPage", "lastPage"}) =>
          nav.wire.params.page <= cur.totalPages
    /\ \A pg \in DrainedPages : pg <= it.src.totalPages

\* C28, amended: nextPage(), firstPage(), lastPage() and the drain never
\* request a page index greater than the total_pages of the cursor they are
\* called on; previousPage() requests the index before the cursor's own, which
\* is within total_pages whenever the cursor's own index is.
C28_ForwardWithinTotal ==
    /\ NavRequested({"nextPage", "firstPage", "lastPage"}) =>
          nav.wire.params.page <= cur.totalPages
    /\ \A pg \in DrainedPages : cur.page <= pg /\ pg < it.src.totalPages
    /\ NavRequested({"previousPage"}) =>
          /\ nav.wire.params.page = cur.page - 1
          /\ cur.page <= cur.totalPages => nav.wire.params.page < cur.totalPages

\* nextPage() of the cursor for the page before the last requested the last
\* page.
C28_Witness ==
    /\ NavRequested({"nextPage"})
    /\ cur.totalPages = 3 /\ cur.page = 2
    /\ nav.wire.params.page = 3

-----------------------------------------------------------------------------
(* A caller that does not await: the navigation methods of a Page are plain *)
(* functions returning a promise, and may be called while a drain of the    *)
(* same Page is waiting for its page.                                       *)

\* cur.nextPage() or cur.lastPage(), called while a generator of a Page is
\* live.
NavigateWhileDraining ==
    /\ it.pc # "none" /\ nav.pc = "idle" /\ cur.pc = "page"
    /\ \E op \in {"nextPage", "lastPage"} :
         nav' = IF op = "lastPage"
                THEN PageCall("lastPage", WithPage(cur.options, cur.totalPages))
                ELSE IF HasNext(cur.page, cur.totalPages)
                THEN PageCall("nextPage", WithPage(cur.options, cur.page + 1))
                ELSE NoSuchPage("nextPage")
    /\ UNCHANGED <<config, env, d, poll, server, cur, it, pub>>

InitOverlap == InitPage

NextOverlap ==
    \/ \E pg \in StartPages : \E options \in Searches(pg) : Search(options)
    \/ NextPage
    \/ LastPage
    \/ NavigateWhileDraining
    \/ PageRespond
    \/ NavAdopt
    \/ NavDrop
    \/ IterCreate
    \/ IterNext
    \/ IterRespond
    \/ IterDrop

SpecOverlap == InitOverlap /\ [][NextOverlap]_vars

\* A page request of a navigation operation / of the generator is in flight.
NavInFlight  == nav.pc = "sent" /\ nav.op # "search"
IterInFlight == it.pc = "await"

\* The page requests the generator has made and not yet had answered.
IterUnanswered == IF it.pc = "none" THEN 0 ELSE Len(it.reqs) - Len(it.got)

\* C29 as stated: no two page requests that originate from the same cursor,
\* through its asynchronous sequence or its navigation operations, are in
\* flight at the same time.
C29_AsStated == ~(NavInFlight /\ IterInFlight /\ it.src = cur)

\* C29, amended: the generator of one asynchronous sequence has at most one
\* page request in flight, and makes the next only after the previous one
\* was answered and the consumer asked for more; a call of a navigation
\* operation makes at most one request.
C29_SequentialWithinDrain ==
    /\ [](/\ IterUnanswered \in {0, 1}
          /\ IterInFlight => IterUnanswered = 1
          /\ it.pc \in {"ready", "yield", "done"} => IterUnanswered = 0
          /\ nav.pc # "idle" => (nav.dispatched <= 1 /\ nav.calls <= nav.dispatched))
    /\ [][(it.pc # "none" /\ it'.pc # "none" /\ Len(it'.reqs) > Len(it.reqs)) =>
            /\ Len(it'.reqs) = Len(it.reqs) + 1
            /\ it.pc \in {"ready", "yield"}
            /\ it'.asked = it.asked + 1
            /\ IterUnanswered = 0]_vars

\* The generator of a three-page cursor waits for its second page, having
\* had the first one answered, while lastPage() of the same cursor is in
\* flight.
C29_Witness ==
    /\ IterInFlight /\ Len(it.reqs) = 2 /\ Len(it.got) = 1
    /\ it.src.totalPages = 3
    /\ NavInFlight /\ nav.op = "lastPage" /\ it.src = cur

-----------------------------------------------------------------------------
(* The Page a caller holds, through navigation, for-of loops and drains of  *)
(* it, while the result set changes.                                        *)

InitHeld == InitPage

NextHeld ==
    \/ \E pg \in StartPages : \E options \in PlainSearches(pg) : Search(options)
    \/ NextPage
    \/ PreviousPage
    \/ FirstPage
    \/ LastPage
    \/ PageRespond
    \/ NavAdopt
    \/ NavDrop
    \/ \E n \in {1, PageSize + 1} : SyncIterate(n)
    \/ IterCreate
    \/ IterNext
    \/ IterRespond
    \/ IterDrop
    \/ \E n \in 0 .. MaxItems : ServerChange(n)

SpecHeld == InitHeld /\ [][NextHeld]_vars

\* What a Page answers with: its counts, its items, and the page index and
\* options its closures hold.
PageData(c) ==
    [ totalCount |-> c.totalCount, pageCount |-> c.totalPages,
      items |-> c.results, page |-> c.page, options |-> c.options,
      response |-> c.response ]

\* The caller replaces the Page it holds by the one a navigation returned.
Replaced ==
    /\ nav.pc = "done" /\ nav.outcome = "page" /\ nav' = NavIdle
    /\ cur'.via = nav.op
    /\ PageData(cur') = PageData(nav.result)

\* A navigation operation of cur has run.
NavCalled(op) == nav.pc \in {"sent", "done"} /\ nav.op = op

\* The navigation call asked for page pg, with the options of cur otherwise.
AskedFor(pg) ==
    /\ nav.dispatched = 1
    /\ nav.options = [cur.options EXCEPT !.page = pg]

\* C30: a Page does not change once built: no navigation operation, for-of
\* loop or drain changes the counts, items, page index or options of the Page
\* it is called on, whatever happens to the result set; a successful
\* navigation returns a new Page made of the one response to its one request,
\* and the Page it was called on goes on answering from its own page index
\* and its own response.
C30_CursorImmutable ==
    /\ [][cur.pc = "page" => (PageData(cur') = PageData(cur) \/ Replaced)]_vars
    /\ [][(it.pc # "none" /\ it'.pc # "none") =>
            PageData(it'.src) = PageData(it.src)]_vars
    /\ [](cur.pc = "page" =>
            /\ cur.totalCount = cur.response.body.total_count
            /\ cur.totalPages = cur.response.body.total_pages
            /\ cur.results = cur.response.body.results
            /\ Len(cur.results) <= PageSize
            /\ cur.runs > 0 =>
                 \E k \in 0 .. Len(cur.results) :
                    cur.seen = SubSeq(cur.results, 1, k))
    /\ []((nav.pc = "done" /\ nav.outcome = "page") =>
            /\ nav.dispatched = 1 /\ nav.calls = 1
            /\ nav.result.page = nav.wire.params.page
            /\ nav.result.results = nav.response.body.results
            /\ nav.result.totalCount = nav.response.body.total_count
            /\ nav.result.totalPages = nav.response.body.total_pages)
    /\ [](/\ NavCalled("nextPage") =>
               IF cur.page >= cur.totalPages THEN nav.outcome = "null"
               ELSE AskedFor(cur.page + 1)
          /\ NavCalled("previousPage") =>
               IF cur.page <= 1 THEN nav.outcome = "null"
               ELSE AskedFor(cur.page - 1)
          /\ NavCalled("firstPage") => AskedFor(1)
          /\ NavCalled("lastPage") => AskedFor(cur.totalPages))

\* The Page of page 1 was iterated with for-of; its nextPage() returned the
\* Page of page 2 after the result set had changed: the new Page has other
\* counts, the Page it was called on has the ones it was built with.
C30_Witness ==
    /\ nav.pc = "done" /\ nav.op = "nextPage" /\ nav.outcome = "page"
    /\ cur.pc = "page" /\ cur.page = 1 /\ cur.runs >= 1 /\ cur.stale
    /\ nav.result.page = 2
    /\ nav.result.totalCount # cur.totalCount
    /\ cur.totalCount = cur.response.body.total_count

====
